---------------------------- MODULE Spec2Model ----------------------------
(***************************************************************************)
(* Model of the AI-driven whiteboard (sgoyalsmvj/whiteboard).              *)
(*                                                                         *)
(*   - the React component AIDrivenWhiteboard: its state (topic, loading,  *)
(*     editor, error, isSpeaking, currentNarration), the handlers          *)
(*     handleMount, clearBoard, speak, executeInstruction, handleSubmit    *)
(*     and the continuation of handleSubmit after each await;              *)
(*   - the generation endpoint POST /api/draw in its two versions present  *)
(*     in the repository (src/unnamed/part_000 answers a bare instruction  *)
(*     list, src/unnamed/part_001 answers narration + instructions), with  *)
(*     generateMockInstructions of each;                                   *)
(*   - the external capabilities as the environment: the provider          *)
(*     (generateContent), the transport (fetch), the canvas (createShape   *)
(*     may throw) and the speech engine (start/end/error events).          *)
(*                                                                         *)
(* Strings the code transforms (topic, instruction text) are sequences of  *)
(* one-character strings; strings the code only passes along (narration,   *)
(* messages, colour names) are TLA+ strings.  Non-ASCII characters of the  *)
(* source literals are written "?".                                        *)
(***************************************************************************)
EXTENDS Integers, Sequences, FiniteSets, TLC

\* ------------------------------------------------------------------------
\* Bounds of the model
\* ------------------------------------------------------------------------
\* submissions accepted in one behaviour
MaxSubmissions == 2
\* instructions in a list the provider returns
MaxInstr == 2
\* times editor.createShape is made to throw within one playback
MaxFailures == 1
\* instructions in a list the scripted provider returns
MaxScript == 2
\* utterances of earlier calls the speech engine holds when speak is called
MaxInFlight == 2
\* points in a point list given to executeInstruction
MaxPoints == 4

\* ------------------------------------------------------------------------
\* JavaScript values
\* ------------------------------------------------------------------------
\* the value null of `error` (string | null); no message of the code is this string
null == "<null>"

Has(obj, field) == field \in DOMAIN obj

\* String.prototype.toLowerCase / toUpperCase on the ASCII letters
LowerLetters == <<"a","b","c","d","e","f","g","h","i","j","k","l","m",
                  "n","o","p","q","r","s","t","u","v","w","x","y","z">>
UpperLetters == <<"A","B","C","D","E","F","G","H","I","J","K","L","M",
                  "N","O","P","Q","R","S","T","U","V","W","X","Y","Z">>

charToLower(c) ==
  IF \E k \in 1..26 : UpperLetters[k] = c
    THEN LowerLetters[CHOOSE k \in 1..26 : UpperLetters[k] = c]
    ELSE c

charToUpper(c) ==
  IF \E k \in 1..26 : LowerLetters[k] = c
    THEN UpperLetters[CHOOSE k \in 1..26 : LowerLetters[k] = c]
    ELSE c

toLowerCase(s) == [k \in 1..Len(s) |-> charToLower(s[k])]

toUpperCase(s) == [k \in 1..Len(s) |-> charToUpper(s[k])]

\* String.prototype.trim: strips white space at both ends
WhiteSpace == {" ", "\t", "\n"}

RECURSIVE trimStart(_)
trimStart(s) ==
  IF s # <<>> /\ Head(s) \in WhiteSpace THEN trimStart(Tail(s)) ELSE s

RECURSIVE trimEnd(_)
trimEnd(s) ==
  IF s # <<>> /\ s[Len(s)] \in WhiteSpace
    THEN trimEnd(SubSeq(s, 1, Len(s) - 1))
    ELSE s

trim(s) == trimEnd(trimStart(s))

\* String.prototype.includes
includes(s, sub) ==
  \E k \in 0..(Len(s) - Len(sub)) : SubSeq(s, k + 1, k + Len(sub)) = sub

\* decimal numeral of a natural number, as template literals print it
Digits == <<"0","1","2","3","4","5","6","7","8","9">>

RECURSIVE numeral(_)
numeral(n) ==
  IF n < 10 THEN Digits[n + 1] ELSE numeral(n \div 10) \o Digits[(n % 10) + 1]

\* ------------------------------------------------------------------------
\* JSON values as the endpoint and the client see them
\* ------------------------------------------------------------------------
undefined == [t |-> "undefined"]
jsonNull == [t |-> "null"]
\* a string the code only passes along
jsonString(s) == [t |-> "string", v |-> s]
\* a string the code transforms: a sequence of characters
jsonChars(s) == [t |-> "chars", v |-> s]
jsonNumber(n) == [t |-> "number", v |-> n]
jsonArray(items) == [t |-> "array", items |-> items]
jsonObject(fields) == [t |-> "object", fields |-> fields]

\* obj.name : undefined when the property is absent or obj is not an object
\* (a read on null throws; the callers test for null first)
Prop(jv, name) ==
  IF jv.t = "object" /\ Has(jv.fields, name) THEN jv.fields[name] ELSE undefined

\* JavaScript truthiness of a JSON value
JTruthy(jv) ==
  CASE jv.t \in {"undefined", "null"} -> FALSE
    [] jv.t = "string" -> jv.v # ""
    [] jv.t = "chars" -> jv.v # <<>>
    [] jv.t = "number" -> jv.v # 0
    [] OTHER -> TRUE

\* a || b
OrElse(a, b) == IF JTruthy(a) THEN a ELSE b

\* JSON.stringify drops the properties whose value is undefined
Serialize(fields) ==
  jsonObject([k \in {n \in DOMAIN fields : fields[n].t # "undefined"} |-> fields[k]])

\* ------------------------------------------------------------------------
\* Fallback Generator: generateMockInstructions and its canned content
\* ------------------------------------------------------------------------
\* src/unnamed/part_000:99-162, the canned list returned for this topic
mockPhotosynthesisList ==
  << [type |-> "drawText", text |-> <<"P","H","O","T","O","S","Y","N","T","H","E","S","I","S">>, position |-> <<300, 50>>],
     [type |-> "drawCircle", points |-> << <<100, 150>>, <<200, 150>>, <<200, 250>>, <<100, 250>> >>],
     [type |-> "drawText", text |-> <<"S","u","n"," ","?","?","?","?","?","?">>, position |-> <<120, 180>>],
     [type |-> "drawArrow", from |-> <<200, 200>>, to |-> <<300, 200>>],
     [type |-> "drawRectangle", points |-> << <<300, 150>>, <<450, 150>>, <<450, 250>>, <<300, 250>> >>],
     [type |-> "drawText", text |-> <<"L","e","a","f"," ","?","?","?","?">>, position |-> <<330, 180>>],
     [type |-> "drawArrow", from |-> <<450, 200>>, to |-> <<550, 200>>],
     [type |-> "drawCircle", points |-> << <<550, 150>>, <<650, 150>>, <<650, 250>>, <<550, 250>> >>],
     [type |-> "drawText", text |-> <<"O","?","?","?"," ","+"," ","G","l","u","c","o","s","e">>, position |-> <<560, 180>>],
     [type |-> "drawText", text |-> <<"C","O","?","?","?"," ","+"," ","H","?","?","?","O"," ","+"," ","L","i","g","h","t"," ","?","?","?"," ","C","?","?","?","H","?","?","?","?","?","?","O","?","?","?"," ","+"," ","O","?","?","?">>, position |-> <<200, 300>>] >>

\* src/unnamed/part_000:167-236, the canned list returned for this topic
mockForLoopList ==
  << [type |-> "drawText", text |-> <<"F","O","R"," ","L","O","O","P"," ","I","N"," ","P","Y","T","H","O","N">>, position |-> <<250, 50>>],
     [type |-> "drawRectangle", points |-> << <<100, 120>>, <<600, 120>>, <<600, 180>>, <<100, 180>> >>],
     [type |-> "drawText", text |-> <<"f","o","r"," ","i"," ","i","n"," ","r","a","n","g","e","(","5",")",":">>, position |-> <<120, 135>>],
     [type |-> "drawArrow", from |-> <<350, 180>>, to |-> <<350, 220>>],
     [type |-> "drawRectangle", points |-> << <<150, 220>>, <<550, 220>>, <<550, 280>>, <<150, 280>> >>],
     [type |-> "drawText", text |-> <<" "," "," "," ","p","r","i","n","t","(","i",")"," "," ","#"," ","L","o","o","p"," ","b","o","d","y">>, position |-> <<170, 235>>],
     [type |-> "drawArrow", from |-> <<150, 250>>, to |-> <<80, 250>>],
     [type |-> "drawArrow", from |-> <<80, 250>>, to |-> <<80, 150>>],
     [type |-> "drawArrow", from |-> <<80, 150>>, to |-> <<100, 150>>],
     [type |-> "drawText", text |-> <<"?","?","?"," ","R","e","p","e","a","t">>, position |-> <<20, 190>>],
     [type |-> "drawArrow", from |-> <<350, 280>>, to |-> <<350, 320>>],
     [type |-> "drawText", text |-> <<"O","u","t","p","u","t",":"," ","0",","," ","1",","," ","2",","," ","3",","," ","4">>, position |-> <<260, 330>>] >>

\* src/unnamed/part_000:241-309, the canned list returned for this topic
mockWaterCycleList ==
  << [type |-> "drawText", text |-> <<"W","A","T","E","R"," ","C","Y","C","L","E">>, position |-> <<300, 30>>],
     [type |-> "drawCircle", points |-> << <<100, 80>>, <<180, 80>>, <<180, 160>>, <<100, 160>> >>],
     [type |-> "drawText", text |-> <<"?","?","?","?","?","?"," ","C","l","o","u","d">>, position |-> <<110, 105>>],
     [type |-> "drawArrow", from |-> <<140, 160>>, to |-> <<200, 220>>],
     [type |-> "drawText", text |-> <<"R","a","i","n"," ","?","?","?","?","?","?">>, position |-> <<145, 180>>],
     [type |-> "drawRectangle", points |-> << <<150, 220>>, <<400, 220>>, <<400, 280>>, <<150, 280>> >>],
     [type |-> "drawText", text |-> <<"?","?","?","?"," ","O","c","e","a","n","/","L","a","k","e">>, position |-> <<230, 240>>],
     [type |-> "drawArrow", from |-> <<275, 220>>, to |-> <<275, 160>>],
     [type |-> "drawText", text |-> <<"?","?","?","?","?","?"," ","E","v","a","p","o","r","a","t","i","o","n">>, position |-> <<280, 180>>],
     [type |-> "drawCircle", points |-> << <<450, 80>>, <<530, 80>>, <<530, 160>>, <<450, 160>> >>],
     [type |-> "drawText", text |-> <<"?","?","?","?","?","?"," ","S","u","n">>, position |-> <<470, 105>>] >>

\* src/unnamed/part_000:313-370, the canned list returned for this topic
mockGenericList(topic) ==
  << [type |-> "drawText", text |-> toUpperCase(topic), position |-> <<250, 50>>],
     [type |-> "drawText", text |-> <<"?","?","?","?"," ","A","I"," ","i","s"," ","t","h","i","n","k","i","n","g",".",".",".">>, position |-> <<200, 150>>],
     [type |-> "drawRectangle", points |-> << <<150, 200>>, <<550, 200>>, <<550, 300>>, <<150, 300>> >>],
     [type |-> "drawText", text |-> <<"T","h","i","s"," ","i","s"," ","a"," ","p","l","a","c","e","h","o","l","d","e","r"," ","d","i","a","g","r","a","m",".">>, position |-> <<200, 220>>],
     [type |-> "drawText", text |-> <<"R","e","p","l","a","c","e"," ","/","a","p","i","/","d","r","a","w"," ","w","i","t","h"," ","O","p","e","n","A","I"," ","i","n","t","e","g","r","a","t","i","o","n">>, position |-> <<170, 250>>],
     [type |-> "drawText", text |-> <<"f","o","r"," ","i","n","t","e","l","l","i","g","e","n","t"," ","v","i","s","u","a","l","i","z","a","t","i","o","n","s","!">>, position |-> <<200, 270>>],
     [type |-> "drawCircle", points |-> << <<50, 350>>, <<150, 350>>, <<150, 450>>, <<50, 450>> >>],
     [type |-> "drawArrow", from |-> <<150, 400>>, to |-> <<250, 400>>],
     [type |-> "drawTriangle", points |-> << <<250, 370>>, <<350, 370>>, <<300, 430>> >>] >>

\* src/unnamed/part_001:190-267, the canned list returned for this topic
mockPhotosynthesis ==
  [narration |-> "Photosynthesis is the process where plants use sunlight, carbon dioxide, and water to create glucose and oxygen.",
   instructions |->
  << [type |-> "drawText", text |-> <<"P","H","O","T","O","S","Y","N","T","H","E","S","I","S">>, position |-> <<300, 50>>, narration |-> "Let's explore how plants make their own food"],
     [type |-> "drawCircle", points |-> << <<100, 150>>, <<200, 150>>, <<200, 250>>, <<100, 250>> >>, narration |-> "The sun provides energy for photosynthesis"],
     [type |-> "drawText", text |-> <<"S","u","n"," ","?","?","?","?","?","?">>, position |-> <<120, 180>>, narration |-> "Sunlight is the primary energy source"],
     [type |-> "drawArrow", from |-> <<200, 200>>, to |-> <<300, 200>>, narration |-> "Energy travels from the sun to the plant"],
     [type |-> "drawRectangle", points |-> << <<300, 150>>, <<450, 150>>, <<450, 250>>, <<300, 250>> >>, narration |-> "The leaf is where photosynthesis happens"],
     [type |-> "drawText", text |-> <<"L","e","a","f"," ","?","?","?","?">>, position |-> <<330, 180>>, narration |-> "Chloroplasts in the leaf capture sunlight"],
     [type |-> "drawArrow", from |-> <<450, 200>>, to |-> <<550, 200>>, narration |-> "The plant produces oxygen and glucose"],
     [type |-> "drawCircle", points |-> << <<550, 150>>, <<650, 150>>, <<650, 250>>, <<550, 250>> >>, narration |-> "These are the products of photosynthesis"],
     [type |-> "drawText", text |-> <<"O","?","?","?"," ","+"," ","G","l","u","c","o","s","e">>, position |-> <<560, 180>>, narration |-> "Oxygen is released and glucose is stored"],
     [type |-> "drawText", text |-> <<"C","O","?","?","?"," ","+"," ","H","?","?","?","O"," ","+"," ","L","i","g","h","t"," ","?","?","?"," ","C","?","?","?","H","?","?","?","?","?","?","O","?","?","?"," ","+"," ","O","?","?","?">>, position |-> <<200, 300>>, narration |-> "This is the chemical equation for photosynthesis"] >>]

\* src/unnamed/part_001:272-357, the canned list returned for this topic
mockForLoop ==
  [narration |-> "A for loop in Python repeats a block of code a specific number of times, iterating through a sequence.",
   instructions |->
  << [type |-> "drawText", text |-> <<"F","O","R"," ","L","O","O","P"," ","I","N"," ","P","Y","T","H","O","N">>, position |-> <<250, 50>>, narration |-> "Let's understand how for loops work in Python"],
     [type |-> "drawRectangle", points |-> << <<100, 120>>, <<600, 120>>, <<600, 180>>, <<100, 180>> >>, narration |-> "This is the for loop header that sets up iteration"],
     [type |-> "drawText", text |-> <<"f","o","r"," ","i"," ","i","n"," ","r","a","n","g","e","(","5",")",":">>, position |-> <<120, 135>>, narration |-> "We're looping through numbers 0 to 4"],
     [type |-> "drawArrow", from |-> <<350, 180>>, to |-> <<350, 220>>, narration |-> "The flow moves into the loop body"],
     [type |-> "drawRectangle", points |-> << <<150, 220>>, <<550, 220>>, <<550, 280>>, <<150, 280>> >>, narration |-> "This is the code that runs each iteration"],
     [type |-> "drawText", text |-> <<" "," "," "," ","p","r","i","n","t","(","i",")"," "," ","#"," ","L","o","o","p"," ","b","o","d","y">>, position |-> <<170, 235>>, narration |-> "Each time, we print the current value of i"],
     [type |-> "drawArrow", from |-> <<150, 250>>, to |-> <<80, 250>>, narration |-> "After each iteration, we check if there are more items"],
     [type |-> "drawArrow", from |-> <<80, 250>>, to |-> <<80, 150>>, narration |-> "If yes, we loop back to the top"],
     [type |-> "drawArrow", from |-> <<80, 150>>, to |-> <<100, 150>>, narration |-> "The loop continues until all items are processed"],
     [type |-> "drawText", text |-> <<"?","?","?"," ","R","e","p","e","a","t">>, position |-> <<20, 190>>, narration |-> "This shows the repetitive nature of loops"],
     [type |-> "drawArrow", from |-> <<350, 280>>, to |-> <<350, 320>>, narration |-> "Once done, we exit the loop"],
     [type |-> "drawText", text |-> <<"O","u","t","p","u","t",":"," ","0",","," ","1",","," ","2",","," ","3",","," ","4">>, position |-> <<260, 330>>, narration |-> "The final output shows all the numbers printed"] >>]

\* src/unnamed/part_001:362-445, the canned list returned for this topic
mockWaterCycle ==
  [narration |-> "The water cycle is the continuous movement of water through evaporation, condensation, and precipitation.",
   instructions |->
  << [type |-> "drawText", text |-> <<"W","A","T","E","R"," ","C","Y","C","L","E">>, position |-> <<300, 30>>, narration |-> "Let's explore how water moves through nature"],
     [type |-> "drawCircle", points |-> << <<100, 80>>, <<180, 80>>, <<180, 160>>, <<100, 160>> >>, narration |-> "Clouds form when water vapor condenses"],
     [type |-> "drawText", text |-> <<"?","?","?","?","?","?"," ","C","l","o","u","d">>, position |-> <<110, 105>>, narration |-> "Water vapor becomes tiny water droplets"],
     [type |-> "drawArrow", from |-> <<140, 160>>, to |-> <<200, 220>>, narration |-> "Water falls from clouds as precipitation"],
     [type |-> "drawText", text |-> <<"R","a","i","n"," ","?","?","?","?","?","?">>, position |-> <<145, 180>>, narration |-> "Rain, snow, or hail falls to Earth"],
     [type |-> "drawRectangle", points |-> << <<150, 220>>, <<400, 220>>, <<400, 280>>, <<150, 280>> >>, narration |-> "Water collects in oceans, lakes, and rivers"],
     [type |-> "drawText", text |-> <<"?","?","?","?"," ","O","c","e","a","n","/","L","a","k","e">>, position |-> <<230, 240>>, narration |-> "Most of Earth's water is in the oceans"],
     [type |-> "drawArrow", from |-> <<275, 220>>, to |-> <<275, 160>>, narration |-> "The sun heats the water, causing evaporation"],
     [type |-> "drawText", text |-> <<"?","?","?","?","?","?"," ","E","v","a","p","o","r","a","t","i","o","n">>, position |-> <<280, 180>>, narration |-> "Liquid water becomes water vapor (gas)"],
     [type |-> "drawCircle", points |-> << <<450, 80>>, <<530, 80>>, <<530, 160>>, <<450, 160>> >>, narration |-> "The sun provides energy for the water cycle"],
     [type |-> "drawText", text |-> <<"?","?","?","?","?","?"," ","S","u","n">>, position |-> <<470, 105>>, narration |-> "Solar energy drives evaporation and weather"] >>]

\* src/unnamed/part_001:449-519, the canned list returned for this topic
mockGeneric(topic) ==
  [narration |-> "This is a sample diagram. Configure your Gemini API key to get AI-powered educational visualizations!",
   instructions |->
  << [type |-> "drawText", text |-> toUpperCase(topic), position |-> <<250, 50>>, narration |-> "This is the title of our diagram"],
     [type |-> "drawText", text |-> <<"?","?","?","?"," ","A","I"," ","i","s"," ","t","h","i","n","k","i","n","g",".",".",".">>, position |-> <<200, 150>>, narration |-> "The AI will create custom visualizations for any topic"],
     [type |-> "drawRectangle", points |-> << <<150, 200>>, <<550, 200>>, <<550, 300>>, <<150, 300>> >>, narration |-> "This is a placeholder container"],
     [type |-> "drawText", text |-> <<"T","h","i","s"," ","i","s"," ","a"," ","p","l","a","c","e","h","o","l","d","e","r"," ","d","i","a","g","r","a","m",".">>, position |-> <<200, 220>>, narration |-> "Configure your Gemini API key in .env.local"],
     [type |-> "drawText", text |-> <<"R","e","p","l","a","c","e"," ","/","a","p","i","/","d","r","a","w"," ","w","i","t","h"," ","O","p","e","n","A","I"," ","i","n","t","e","g","r","a","t","i","o","n">>, position |-> <<170, 250>>, narration |-> "The API endpoint can use any AI service"],
     [type |-> "drawText", text |-> <<"f","o","r"," ","i","n","t","e","l","l","i","g","e","n","t"," ","v","i","s","u","a","l","i","z","a","t","i","o","n","s","!">>, position |-> <<200, 270>>, narration |-> "AI will generate diagrams based on your topic"],
     [type |-> "drawCircle", points |-> << <<50, 350>>, <<150, 350>>, <<150, 450>>, <<50, 450>> >>, narration |-> "Here's a circle shape example"],
     [type |-> "drawArrow", from |-> <<150, 400>>, to |-> <<250, 400>>, narration |-> "Arrows show relationships between elements"],
     [type |-> "drawTriangle", points |-> << <<250, 370>>, <<350, 370>>, <<300, 430>> >>, narration |-> "Triangles can represent hierarchies or decisions"] >>]

kwPhotosynthesis == <<"p","h","o","t","o","s","y","n","t","h","e","s","i","s">>
kwFor == <<"f","o","r">>
kwLoop == <<"l","o","o","p">>
kwWaterCycle == <<"w","a","t","e","r"," ","c","y","c","l","e">>
kwWater == <<"w","a","t","e","r">>

\* which canned content the substring tests select, first match wins
mockSelectWaterFirst(topic) ==
  IF includes(topic, kwPhotosynthesis) THEN "photosynthesis"
  ELSE IF includes(topic, kwWaterCycle) \/ includes(topic, kwWater) THEN "water"
  ELSE IF includes(topic, kwFor) /\ includes(topic, kwLoop) THEN "forLoop"
  ELSE "generic"

mockSelect(topic) ==
  IF includes(topic, kwPhotosynthesis) THEN "photosynthesis"
  ELSE IF includes(topic, kwFor) /\ includes(topic, kwLoop) THEN "forLoop"
  ELSE IF includes(topic, kwWaterCycle) \/ includes(topic, kwWater) THEN "water"
  ELSE "generic"

\* part_000: generateMockInstructions returns a bare list of instructions
generateMockInstructionsList(topic) ==
  jsonArray(CASE mockSelect(topic) = "photosynthesis" -> mockPhotosynthesisList
              [] mockSelect(topic) = "forLoop" -> mockForLoopList
              [] mockSelect(topic) = "water" -> mockWaterCycleList
              [] OTHER -> mockGenericList(topic))

\* part_001: generateMockInstructions returns an object { narration, instructions }
asDiagram(d) ==
  jsonObject([narration |-> jsonString(d.narration),
              instructions |-> jsonArray(d.instructions)])

generateMockInstructions(topic) ==
  asDiagram(CASE mockSelect(topic) = "photosynthesis" -> mockPhotosynthesis
              [] mockSelect(topic) = "forLoop" -> mockForLoop
              [] mockSelect(topic) = "water" -> mockWaterCycle
              [] OTHER -> mockGeneric(topic))

\* ------------------------------------------------------------------------
\* Generation endpoint: POST /api/draw
\* ------------------------------------------------------------------------
\* The text the provider returns is described by what the endpoint does with
\* it: whether /\{[\s\S]*\}/ matches, what JSON.parse gives on the match and
\* what it gives on the whole text.
syntaxError == [ok |-> FALSE]
parsedAs(jv) == [ok |-> TRUE, value |-> jv]

\* NextResponse.json(body, { status })
jsonResponse(status, body) == [status |-> status, body |-> body]

\* both versions: the fallback answer, 200 with only `instructions`
mockResponse(route, topic) ==
  jsonResponse(200, Serialize([instructions |->
      IF route = "part_000"
        THEN generateMockInstructionsList(toLowerCase(topic))
        ELSE generateMockInstructions(toLowerCase(topic))]))

\* JSON.parse of the text the code selects: the match when there is one
jsonParseSelected(text) == IF text.match THEN text.matchParse ELSE text.wholeParse

\* part_000 lines 59-85: the try block around the provider call
tryProviderList(topic, provider) ==
  IF provider.kind = "throws" THEN [threw |-> TRUE]
  ELSE LET r == jsonParseSelected(provider.text) IN
    IF ~r.ok THEN [threw |-> TRUE]                 \* "Invalid JSON response from AI"
    ELSE IF provider.text.match
      THEN [threw |-> FALSE, response |-> jsonResponse(200,
              Serialize([instructions |-> OrElse(Prop(r.value, "instructions"), r.value)]))]
      ELSE [threw |-> FALSE, response |-> jsonResponse(200,
              Serialize([instructions |-> r.value]))]

\* part_001 lines 147-176: the try block around the provider call
tryProvider(topic, provider) ==
  IF provider.kind = "throws" THEN [threw |-> TRUE]
  ELSE LET r == jsonParseSelected(provider.text) IN
    IF ~r.ok THEN [threw |-> TRUE]                 \* "Invalid JSON response from AI"
    ELSE IF r.value.t = "null" THEN [threw |-> TRUE]  \* TypeError: parsedData.narration
    ELSE [threw |-> FALSE, response |-> jsonResponse(200,
            Serialize([narration |-> Prop(r.value, "narration"),
                       instructions |-> OrElse(Prop(r.value, "instructions"), r.value)]))]

\* catch (aiError): fall back to the mock data
catchAiErrorRethrow(route, topic, attempt) ==
  IF attempt.threw
    THEN jsonResponse(500, jsonObject([error |-> jsonString("Failed to process request")]))
    ELSE attempt.response

catchAiError(route, topic, attempt) ==
  IF attempt.threw THEN mockResponse(route, topic) ELSE attempt.response

\* if (!topic)
topicMissingUndefinedOnly(topic) == topic.t = "undefined"

topicMissing(topic) == ~JTruthy(topic)

\* the outer catch: 500 with an error field
failedToProcess ==
  jsonResponse(500, jsonObject([error |-> jsonString("Failed to process request")]))

\* The handler.  request is what `await request.json()` gives: a syntax
\* error or the parsed body; destructuring null throws, and so does
\* topic.toLowerCase() on a truthy topic that is not a string: the outer
\* catch answers those.  invoked names what the handler called: the provider
\* (model.generateContent), the fallback (generateMockInstructions).
POST(route, request, keyConfigured, provider) ==
  IF ~request.ok \/ request.value.t = "null"
    THEN [response |-> failedToProcess, invoked |-> {}]
  ELSE LET topic == Prop(request.value, "topic") IN
    IF topicMissing(topic)
      THEN [response |-> jsonResponse(400, jsonObject([error |-> jsonString("Topic is required")])),
            invoked |-> {}]
    ELSE IF ~keyConfigured
      THEN IF topic.t # "chars"
             THEN [response |-> failedToProcess, invoked |-> {}]
             ELSE [response |-> mockResponse(route, topic.v), invoked |-> {"fallback"}]
    ELSE LET attempt == IF route = "part_000" THEN tryProviderList(topic.v, provider)
                                              ELSE tryProvider(topic.v, provider)
         IN IF attempt.threw /\ topic.t # "chars"
              THEN [response |-> failedToProcess, invoked |-> {"provider"}]
              ELSE [response |-> catchAiError(route, topic.v, attempt),
                    invoked |-> IF attempt.threw THEN {"provider", "fallback"}
                                                 ELSE {"provider"}]
\* ------------------------------------------------------------------------
\* Color Normalizer: mapToTldrawColor
\* ------------------------------------------------------------------------
colorMap ==
  << [key |-> <<"#","0","0","0","0","0","0">>, value |-> "black"],
     [key |-> <<"#","8","0","8","0","8","0">>, value |-> "grey"],
     [key |-> <<"#","d","4","d","4","f","f">>, value |-> "light-violet"],
     [key |-> <<"#","9","7","4","7","f","f">>, value |-> "violet"],
     [key |-> <<"#","0","0","0","0","f","f">>, value |-> "blue"],
     [key |-> <<"#","4","d","a","b","f","7">>, value |-> "light-blue"],
     [key |-> <<"#","f","f","f","f","0","0">>, value |-> "yellow"],
     [key |-> <<"#","f","f","a","5","0","0">>, value |-> "orange"],
     [key |-> <<"#","f","f","4","5","0","0">>, value |-> "orange"],
     [key |-> <<"#","0","0","8","0","0","0">>, value |-> "green"],
     [key |-> <<"#","9","0","e","e","9","0">>, value |-> "light-green"],
     [key |-> <<"#","f","f","0","0","0","0">>, value |-> "red"],
     [key |-> <<"#","f","f","a","0","7","a">>, value |-> "light-red"],
     [key |-> <<"#","f","f","f","f","f","f">>, value |-> "white"],
     [key |-> <<"b","l","a","c","k">>, value |-> "black"],
     [key |-> <<"g","r","e","y">>, value |-> "grey"],
     [key |-> <<"g","r","a","y">>, value |-> "grey"],
     [key |-> <<"v","i","o","l","e","t">>, value |-> "violet"],
     [key |-> <<"p","u","r","p","l","e">>, value |-> "violet"],
     [key |-> <<"b","l","u","e">>, value |-> "blue"],
     [key |-> <<"l","i","g","h","t","b","l","u","e">>, value |-> "light-blue"],
     [key |-> <<"l","i","g","h","t","-","b","l","u","e">>, value |-> "light-blue"],
     [key |-> <<"y","e","l","l","o","w">>, value |-> "yellow"],
     [key |-> <<"o","r","a","n","g","e">>, value |-> "orange"],
     [key |-> <<"o","r","a","n","g","e","r","e","d">>, value |-> "orange"],
     [key |-> <<"g","r","e","e","n">>, value |-> "green"],
     [key |-> <<"l","i","g","h","t","g","r","e","e","n">>, value |-> "light-green"],
     [key |-> <<"l","i","g","h","t","-","g","r","e","e","n">>, value |-> "light-green"],
     [key |-> <<"r","e","d">>, value |-> "red"],
     [key |-> <<"l","i","g","h","t","r","e","d">>, value |-> "light-red"],
     [key |-> <<"l","i","g","h","t","-","r","e","d">>, value |-> "light-red"],
     [key |-> <<"w","h","i","t","e">>, value |-> "white"] >>
\* the properties colorMap inherits from Object.prototype whose names are
\* lower case: the function Object and the prototype object, both truthy
inheritedKeys ==
  { <<"c","o","n","s","t","r","u","c","t","o","r">>,
    <<"_","_","p","r","o","t","o","_","_">> }

inheritedValue(key) ==
  IF key = <<"c","o","n","s","t","r","u","c","t","o","r">>
    THEN "[Function: Object]"
    ELSE "[Object: null prototype] {}"

\* colorMap[colorLower] || "black"
colorLookup(key) ==
  IF \E k \in 1..Len(colorMap) : colorMap[k].key = key
    THEN colorMap[CHOOSE k \in 1..Len(colorMap) : colorMap[k].key = key].value
  ELSE IF key \in inheritedKeys THEN inheritedValue(key)
  ELSE "black"

\* instruction.color is absent (undefined) or a string
mapToTldrawColor(instruction) ==
  IF ~Has(instruction, "color") \/ instruction.color = <<>>
    THEN "black"
    ELSE colorLookup(toLowerCase(instruction.color))

\* ------------------------------------------------------------------------
\* Instruction Interpreter: executeInstruction
\* ------------------------------------------------------------------------
\* What the body of the try block does: calls = editor.createShape calls
\* issued, shapes = the primitives the canvas now holds in addition, threw =
\* an exception left the switch.  createThrows is the canvas' answer to the
\* createShape call, if one is issued.
skipInstruction == [calls |-> 0, shapes |-> <<>>, threw |-> FALSE]

\* reading [0] of an absent field (TypeError), before createShape is reached
typeError == [calls |-> 0, shapes |-> <<>>, threw |-> TRUE]

createShape(shape, createThrows) ==
  [calls |-> 1,
   shapes |-> IF createThrows THEN <<>> ELSE <<shape>>,
   threw |-> createThrows]

\* one straight segment per consecutive pair of points
openSegments(points) ==
  [k \in 1..(Len(points) - 1) |->
     [type |-> "straight", points |-> <<points[k], points[k + 1]>>]]

\* the same plus the closing segment from the last point to the first
closedSegmentsNotClosed(points) == openSegments(points)

closedSegments(points) ==
  Append(openSegments(points),
         [type |-> "straight", points |-> <<points[Len(points)], points[1]>>])

mathMin(ns) == CHOOSE m \in ns : \A n \in ns : m <= n
mathMax(ns) == CHOOSE m \in ns : \A n \in ns : m >= n

\* x, y, w, h of the axis-aligned bounding box of the points
boundingBoxFirstToLast(points) ==
  [x |-> points[1][1], y |-> points[1][2],
   w |-> points[Len(points)][1] - points[1][1],
   h |-> points[Len(points)][2] - points[1][2]]

boundingBox(points) ==
  LET xs == {points[k][1] : k \in 1..Len(points)}
      ys == {points[k][2] : k \in 1..Len(points)}
  IN [x |-> mathMin(xs), y |-> mathMin(ys),
      w |-> mathMax(xs) - mathMin(xs), h |-> mathMax(ys) - mathMin(ys)]

\* case "drawText"
drawText(instruction, color, createThrows) ==
  IF ~Has(instruction, "position") \/ ~Has(instruction, "text") THEN typeError
  ELSE createShape([type |-> "text",
                    x |-> instruction.position[1], y |-> instruction.position[2],
                    props |-> [richText |-> instruction.text, color |-> color]],
                   createThrows)

\* case "drawArrow"
drawArrowAbsoluteEnd(instruction, color, createThrows) ==
  IF ~Has(instruction, "from") \/ ~Has(instruction, "to") THEN typeError
  ELSE createShape([type |-> "arrow",
                    x |-> instruction.from[1], y |-> instruction.from[2],
                    props |-> [start |-> <<0, 0>>, end |-> instruction.to,
                               color |-> color]],
                   createThrows)

drawArrow(instruction, color, createThrows) ==
  IF ~Has(instruction, "from") \/ ~Has(instruction, "to") THEN typeError
  ELSE createShape([type |-> "arrow",
                    x |-> instruction.from[1], y |-> instruction.from[2],
                    props |-> [start |-> <<0, 0>>,
                               end |-> <<instruction.to[1] - instruction.from[1],
                                         instruction.to[2] - instruction.from[2]>>,
                               color |-> color]],
                   createThrows)

\* case "drawLine" / "drawPath": any array, the empty one too, is truthy, so
\* [from, to] is used only when `points` is absent
linePoints(instruction) ==
  IF Has(instruction, "points") THEN instruction.points
  ELSE IF Has(instruction, "from") /\ Has(instruction, "to")
    THEN <<instruction.from, instruction.to>>
    ELSE <<>>

drawLine(instruction, color, createThrows) ==
  LET points == linePoints(instruction) IN
    IF Len(points) < 2 THEN skipInstruction
    ELSE createShape([type |-> "draw", x |-> 0, y |-> 0,
                      props |-> [segments |-> openSegments(points),
                                 color |-> color, size |-> "m"]],
                     createThrows)

\* case "drawTriangle"
drawTrianglePerSegment(instruction, color, createThrows) ==
  LET points == IF Has(instruction, "points") THEN instruction.points ELSE <<>> IN
    IF Len(points) < 3 THEN skipInstruction
    ELSE [calls |-> Len(points),
          shapes |-> IF createThrows THEN <<>>
                     ELSE [k \in 1..Len(points) |->
                             [type |-> "draw", x |-> 0, y |-> 0,
                              props |-> [segments |-> <<closedSegments(points)[k]>>,
                                         color |-> color, size |-> "m"]]],
          threw |-> createThrows]

drawTriangle(instruction, color, createThrows) ==
  LET points == IF Has(instruction, "points") THEN instruction.points ELSE <<>> IN
    IF Len(points) < 3 THEN skipInstruction
    ELSE createShape([type |-> "draw", x |-> 0, y |-> 0,
                      props |-> [segments |-> closedSegments(points),
                                 color |-> color, size |-> "m", isClosed |-> TRUE]],
                     createThrows)

\* case "drawCircle"
drawCircle(instruction, color, createThrows) ==
  IF Has(instruction, "position") /\ Has(instruction, "size")
    THEN createShape([type |-> "geo",
                      x |-> instruction.position[1], y |-> instruction.position[2],
                      props |-> [geo |-> "ellipse", w |-> instruction.size[1],
                                 h |-> instruction.size[2], color |-> color]],
                     createThrows)
  ELSE IF Has(instruction, "points") /\ Len(instruction.points) > 0
    THEN LET box == boundingBox(instruction.points) IN
         createShape([type |-> "geo", x |-> box.x, y |-> box.y,
                      props |-> [geo |-> "ellipse", w |-> box.w, h |-> box.h,
                                 color |-> color]],
                     createThrows)
  ELSE skipInstruction

\* case "drawRectangle"
drawRectangle(instruction, color, createThrows) ==
  IF Has(instruction, "position") /\ Has(instruction, "size")
    THEN createShape([type |-> "geo",
                      x |-> instruction.position[1], y |-> instruction.position[2],
                      props |-> [geo |-> "rectangle", w |-> instruction.size[1],
                                 h |-> instruction.size[2], color |-> color]],
                     createThrows)
  ELSE IF Has(instruction, "points") /\ Len(instruction.points) >= 2
    THEN LET box == boundingBox(instruction.points) IN
         createShape([type |-> "geo", x |-> box.x, y |-> box.y,
                      props |-> [geo |-> "rectangle", w |-> box.w, h |-> box.h,
                                 color |-> color]],
                     createThrows)
  ELSE skipInstruction

\* case "drawHighlight"
drawHighlight(instruction, createThrows) ==
  IF ~Has(instruction, "points") \/ Len(instruction.points) < 3 THEN skipInstruction
  ELSE createShape([type |-> "draw", x |-> 0, y |-> 0,
                    props |-> [segments |-> closedSegments(instruction.points),
                               color |-> "yellow", size |-> "l",
                               isClosed |-> TRUE, fill |-> "solid"]],
                   createThrows)

\* case "drawCodeBlock" / "drawSpeechBubble"
drawCodeBlockColoured(instruction, createThrows) ==
  IF ~Has(instruction, "position") \/ ~Has(instruction, "text") THEN typeError
  ELSE createShape([type |-> "text",
                    x |-> instruction.position[1], y |-> instruction.position[2],
                    props |-> [richText |-> instruction.text,
                               color |-> IF Has(instruction, "color")
                                           THEN mapToTldrawColor(instruction)
                                         ELSE IF instruction.type = "drawCodeBlock"
                                           THEN "grey" ELSE "light-blue",
                               size |-> "m"]],
                   createThrows)

drawCodeBlock(instruction, createThrows) ==
  IF ~Has(instruction, "position") \/ ~Has(instruction, "text") THEN typeError
  ELSE createShape([type |-> "text",
                    x |-> instruction.position[1], y |-> instruction.position[2],
                    props |-> [richText |-> instruction.text,
                               color |-> IF instruction.type = "drawCodeBlock"
                                           THEN "grey" ELSE "light-blue",
                               size |-> "m"]],
                   createThrows)

\* case "showImage"
showImage(instruction, createThrows) ==
  IF ~Has(instruction, "position") \/ ~Has(instruction, "size") THEN typeError
  ELSE createShape([type |-> "image",
                    x |-> instruction.position[1], y |-> instruction.position[2],
                    props |-> [w |-> instruction.size[1], h |-> instruction.size[2],
                               url |-> IF Has(instruction, "url")
                                         THEN instruction.url ELSE "undefined"]],
                   createThrows)

\* the switch on instruction.type; a type with no case does nothing
switchType(instruction, createThrows) ==
  LET color == mapToTldrawColor(instruction)
      type == IF Has(instruction, "type") THEN instruction.type ELSE "undefined"
  IN CASE type = "drawText" -> drawText(instruction, color, createThrows)
       [] type = "drawArrow" -> drawArrow(instruction, color, createThrows)
       [] type \in {"drawLine", "drawPath"} -> drawLine(instruction, color, createThrows)
       [] type = "drawTriangle" -> drawTriangle(instruction, color, createThrows)
       [] type = "drawCircle" -> drawCircle(instruction, color, createThrows)
       [] type = "drawRectangle" -> drawRectangle(instruction, color, createThrows)
       [] type = "drawHighlight" -> drawHighlight(instruction, createThrows)
       [] type \in {"drawCodeBlock", "drawSpeechBubble"} ->
            drawCodeBlock(instruction, createThrows)
       [] type = "showImage" -> showImage(instruction, createThrows)
       [] OTHER -> skipInstruction

\* the message of the catch block: the index is reported 1-based
failedMessageZeroBased(index) == "Failed to execute instruction " \o numeral(index)

failedMessage(index) == "Failed to execute instruction " \o numeral(index + 1)

\* try { switch } catch { setError }: setError is the value setError receives,
\* or null when it is not called; propagates = an exception leaves the function
catchExecuteRethrow(result, index) ==
  [calls |-> result.calls, shapes |-> result.shapes, threw |-> result.threw,
   setError |-> null,
   propagates |-> result.threw]

catchExecute(result, index) ==
  [calls |-> result.calls, shapes |-> result.shapes, threw |-> result.threw,
   setError |-> IF result.threw THEN failedMessage(index) ELSE null,
   propagates |-> FALSE]

\* executeInstruction(instruction, index) with the editor mounted
executeInstruction(instruction, index, createThrows) ==
  catchExecute(switchType(instruction, createThrows), index)

\* ------------------------------------------------------------------------
\* Inputs the environment chooses from
\* ------------------------------------------------------------------------
\* what the user types into the topic field: "", "  ", "Water"
Topics ==
  { <<>>,
    <<" ", " ">>,
    <<"W","a","t","e","r">> }

\* instructions a provider may return: with and without narration, with step
\* values that disagree with the array order, one that lacks its position
SampleInstructions ==
  { [type |-> "drawText", text |-> <<"A">>, position |-> <<10, 20>>,
     narration |-> "first label", step |-> 2],
    [type |-> "drawText", text |-> <<"B">>, step |-> 1] }

RECURSIVE ListsUpTo(_)
ListsUpTo(n) ==
  IF n = 0 THEN {<<>>}
  ELSE LET shorter == ListsUpTo(n - 1) IN
       shorter \cup {Append(l, s) : l \in {m \in shorter : Len(m) = n - 1},
                                    s \in SampleInstructions}

ProviderLists == ListsUpTo(MaxInstr)

\* the object the prompt asks for, with or without the overall narration
diagram(list, withNarration) ==
  IF withNarration
    THEN jsonObject([narration |-> jsonString("overall narration"),
                     instructions |-> jsonArray(list)])
    ELSE jsonObject([instructions |-> jsonArray(list)])

ProviderDiagrams == {diagram(l, n) : l \in ProviderLists, n \in BOOLEAN}

\* valid JSON of another shape: an object without `instructions`
otherShape == jsonObject([steps |-> jsonNumber(3)])

\* '{...}' alone: the pattern matches the whole text
plainText(jv) == [match |-> TRUE, matchParse |-> parsedAs(jv), wholeParse |-> parsedAs(jv)]
\* '```json {...} ```': the pattern matches the object inside the fence
fencedText(jv) == [match |-> TRUE, matchParse |-> parsedAs(jv), wholeParse |-> syntaxError]
\* 'Sorry, I cannot help with that': no brace, not JSON
proseText == [match |-> FALSE, matchParse |-> syntaxError, wholeParse |-> syntaxError]
\* '{ "instructions": [ ': an opening and a closing brace, not JSON
brokenText == [match |-> TRUE, matchParse |-> syntaxError, wholeParse |-> syntaxError]
\* '[{"type":"drawText"},{"type":"drawArrow"}]': JSON, but the match
\* '{...},{...}' is not
arrayOfObjectsText ==
  [match |-> TRUE, matchParse |-> syntaxError,
   wholeParse |-> parsedAs(jsonArray(<<[type |-> "drawText"], [type |-> "drawArrow"]>>))]
\* 'null'
nullText == [match |-> FALSE, matchParse |-> syntaxError, wholeParse |-> parsedAs(jsonNull)]
\* '[]'
emptyArrayText ==
  [match |-> FALSE, matchParse |-> syntaxError, wholeParse |-> parsedAs(jsonArray(<<>>))]

ProviderTexts ==
  {plainText(d) : d \in ProviderDiagrams}
    \cup {plainText(otherShape),
          fencedText(diagram(<<>>, FALSE)),
          fencedText(otherShape),
          proseText, brokenText, arrayOfObjectsText, nullText, emptyArrayText}

\* model.generateContent(prompt): throws, or returns a text
Providers ==
  {[kind |-> "throws"]} \cup {[kind |-> "text", text |-> t] : t \in ProviderTexts}

\* the provider of a run: unconstrained, or scripted to return `list`
freeProvider == [free |-> TRUE]
scripted(list) == [free |-> FALSE, list |-> list]

\* the provider is not called when no API key is configured
notCalled == [kind |-> "notCalled"]

\* how the fetch of the client settles: it rejects, an intermediary answers
\* with an error status, or the endpoint answers
NetworkErrorMessage == "Failed to fetch"
gatewayError == [status |-> 502, body |-> jsonObject([error |-> jsonString("Bad Gateway")])]

\* ------------------------------------------------------------------------
\* The component AIDrivenWhiteboard
\* ------------------------------------------------------------------------
VARIABLES
  topic,            \* useState(""): the topic field
  loading,          \* useState(false)
  editor,           \* useState(null): TRUE once the canvas is mounted
  error,            \* useState(null)
  isSpeaking,       \* useState(false)
  currentNarration, \* useState("")
  synth,            \* window.speechSynthesis is available
  route,            \* which version of the endpoint is deployed
  keyConfigured,    \* process.env.GEMINI_API_KEY is set
  shapes,           \* the shapes on the current page of the canvas
  utterances,       \* the speech engine: utterances not yet ended
  pc,               \* where handleSubmit is suspended
  data,             \* handleSubmit: the response body being played
  i,                \* handleSubmit: the loop index
  zoomTimers,       \* pending setTimeout(zoomToFit, 200)
  exchange,         \* the request of the current submission and how it settled
  submissions,      \* accepted submissions so far
  fetchCalls,       \* calls of fetch("/api/draw") so far
  spoken,           \* calls of speak() in the current submission
  interpreted,      \* indices passed to executeInstruction in the current submission
  createCalls,      \* editor.createShape calls in the current submission
  failed,           \* indices whose interpretation threw in the current submission
  injected,         \* createShape calls the canvas made throw in the current submission
  zoomRequests,     \* editor.zoomToFit calls so far
  escaped,          \* exceptions that left executeInstruction in the current submission
  deleted,          \* the last editor.deleteShapes call was given at least one id
  lastSubmit,       \* the last call of handleSubmit: its topic and how it went
  providerScript,   \* the provider of this run: free to answer anything of
                    \* Providers, or set to answer one given instruction list
  call              \* the last direct call of the endpoint or of a helper

vars == <<topic, loading, editor, error, isSpeaking, currentNarration, synth,
          route, keyConfigured, shapes, utterances, pc, data, i, zoomTimers,
          exchange, submissions, fetchCalls, spoken, interpreted, createCalls,
          failed, injected, zoomRequests, escaped, deleted, lastSubmit,
          providerScript, call>>

\* the state as one record, for the operators that model the handlers
Frame ==
  [topic |-> topic, loading |-> loading, editor |-> editor, error |-> error,
   isSpeaking |-> isSpeaking, currentNarration |-> currentNarration,
   synth |-> synth, route |-> route, keyConfigured |-> keyConfigured,
   shapes |-> shapes, utterances |-> utterances, pc |-> pc, data |-> data,
   i |-> i, zoomTimers |-> zoomTimers, exchange |-> exchange,
   submissions |-> submissions, fetchCalls |-> fetchCalls, spoken |-> spoken,
   interpreted |-> interpreted, createCalls |-> createCalls, failed |-> failed,
   injected |-> injected, zoomRequests |-> zoomRequests, escaped |-> escaped,
   deleted |-> deleted, lastSubmit |-> lastSubmit]

\* the handler returns: its frame becomes the state (h is evaluated once)
Commit(h) ==
  \E r \in {h} :
    /\ exchange' = r.exchange /\ pc' = r.pc /\ data' = r.data /\ i' = r.i
    /\ topic' = r.topic /\ loading' = r.loading /\ editor' = r.editor
    /\ error' = r.error /\ isSpeaking' = r.isSpeaking
    /\ currentNarration' = r.currentNarration /\ synth' = r.synth
    /\ route' = r.route /\ keyConfigured' = r.keyConfigured
    /\ shapes' = r.shapes /\ utterances' = r.utterances
    /\ zoomTimers' = r.zoomTimers /\ submissions' = r.submissions
    /\ fetchCalls' = r.fetchCalls /\ spoken' = r.spoken
    /\ interpreted' = r.interpreted /\ createCalls' = r.createCalls
    /\ failed' = r.failed /\ injected' = r.injected
    /\ zoomRequests' = r.zoomRequests /\ escaped' = r.escaped
    /\ deleted' = r.deleted /\ lastSubmit' = r.lastSubmit
    /\ providerScript' = providerScript
    /\ call' = call

noCall == [op |-> "none"]

noData == jsonObject([instructions |-> jsonArray(<<>>)])

Init ==
  /\ topic = <<>>
  /\ loading = FALSE
  /\ editor = FALSE
  /\ error = null
  /\ isSpeaking = FALSE
  /\ currentNarration = ""
  /\ synth \in BOOLEAN
  /\ route \in {"part_000", "part_001"}
  /\ keyConfigured \in BOOLEAN
  /\ shapes = {}
  /\ utterances = <<>>
  /\ pc = "idle"
  /\ data = noData
  /\ i = 0
  /\ zoomTimers = 0
  /\ exchange = [kind |-> "none"]
  /\ submissions = 0
  /\ fetchCalls = 0
  /\ spoken = <<>>
  /\ interpreted = <<>>
  /\ createCalls = 0
  /\ failed = {}
  /\ injected = 0
  /\ zoomRequests = 0
  /\ escaped = 0
  /\ deleted = FALSE
  /\ lastSubmit = [outcome |-> "none", topic |-> <<>>]
  /\ providerScript = freeProvider
  /\ call = noCall

\* ---- speech engine ------------------------------------------------------
\* synth.cancel(): every utterance in flight is cancelled; the engine still
\* delivers its end or error event
synthCancel(us) == [k \in 1..Len(us) |-> [us[k] EXCEPT !.state = "cancelled"]]

\* the promise of speak() is already resolved when speak() returns
resolvedAtOnceAlways(h) == TRUE

resolvedAtOnce(h) == ~h.synth

\* speak(text), called for the step `index` (-1: the overall narration)
speakNoCancel(h, text, index) ==
  LET logged == [h EXCEPT !.spoken = Append(@, [index |-> index, text |-> text])] IN
    IF ~h.synth THEN logged
    ELSE [logged EXCEPT !.utterances =
            Append(@, [id |-> Len(logged.spoken), text |-> text, state |-> "pending"])]

speak(h, text, index) ==
  LET logged == [h EXCEPT !.spoken = Append(@, [index |-> index, text |-> text])] IN
    IF ~h.synth THEN logged
    ELSE [logged EXCEPT !.utterances =
            Append(synthCancel(@),
                   [id |-> Len(logged.spoken), text |-> text, state |-> "pending"])]

\* ---- clearBoard ---------------------------------------------------------
\* editor.deleteShapes(ids): what is left on the page
deleteShapesNone(page, ids) == page

deleteShapes(page, ids) == {s \in page : s.id \notin ids}

clearBoardUnguarded(h) ==
  [h EXCEPT !.shapes = deleteShapes(@, {s.id : s \in @}),
            !.deleted = h.shapes # {},
            !.error = null,
            !.currentNarration = "",
            !.utterances = IF h.synth THEN synthCancel(@) ELSE @,
            !.isSpeaking = FALSE]

clearBoard(h) ==
  IF ~h.editor THEN h
  ELSE [h EXCEPT !.shapes = deleteShapes(@, {s.id : s \in @}),
                 !.deleted = h.shapes # {},
                 !.error = null,
                 !.currentNarration = "",
                 !.utterances = IF h.synth THEN synthCancel(@) ELSE @,
                 !.isSpeaking = FALSE]

\* ---- handleSubmit -------------------------------------------------------
\* setLoading(true); setError(null); clearBoard()
startLoadingNot(h) == clearBoard([h EXCEPT !.error = null])

startLoading(h) == clearBoard([h EXCEPT !.loading = TRUE, !.error = null])

\* !topic.trim()
topicIsBlankEmptyOnly(t) == t = <<>>

topicIsBlank(t) == trim(t) = <<>>

\* response.ok
responseOk(status) == status >= 200 /\ status <= 299

\* data.instructions && data.instructions.length > 0
hasInstructionsAnyList(body) == Prop(body, "instructions").t = "array"

hasInstructions(body) ==
  LET ins == Prop(body, "instructions") IN
    ins.t = "array" /\ Len(ins.items) > 0

instructionList(body) ==
  IF hasInstructions(body) THEN Prop(body, "instructions").items ELSE <<>>

\* instruction.narration is a non-empty string
hasNarration(instruction) ==
  Has(instruction, "narration") /\ instruction.narration # ""

\* i < data.instructions.length
loopContinuesShort(index, length) == index < length - 1

loopContinues(index, length) == index < length

\* finally { setLoading(false) }
finallyStillLoading(h) == [h EXCEPT !.pc = "idle"]

finally(h) == [h EXCEPT !.loading = FALSE, !.pc = "idle"]

\* catch (err): err.message of an Error
catchMessageNull(message) == null

catchMessage(message) == message

\* catch and finally of handleSubmit: the error is shown, nothing is retried
catchSubmitRetry(h, message) ==
  [h EXCEPT !.error = catchMessage(message),
            !.pc = "fetch",
            !.fetchCalls = @ + 1,
            !.exchange = [kind |-> "pending", body |-> h.exchange.body]]

catchSubmit(h, message) == finally([h EXCEPT !.error = catchMessage(message)])

\* the playback reached the end of the list: setTimeout(zoomToFit, 200), then
\* the finally block
endOfPlaybackNoZoom(h) == finally(h)

endOfPlayback(h) == finally([h EXCEPT !.zoomTimers = @ + 1])

\* executeInstruction(instruction, i) and the setTimeout that follows it
execute(h, createThrows) ==
  LET instruction == instructionList(h.data)[h.i + 1]
      r == executeInstruction(instruction, h.i, createThrows)
      made == [k \in 1..Len(r.shapes) |->
                 [id |-> <<h.submissions, h.createCalls + k>>, shape |-> r.shapes[k]]]
      after == [h EXCEPT
                  !.interpreted = Append(@, [index |-> h.i, instruction |-> instruction]),
                  !.createCalls = @ + r.calls,
                  !.shapes = @ \cup {made[k] : k \in 1..Len(made)},
                  !.failed = IF r.threw THEN @ \cup {h.i} ELSE @,
                  !.injected = IF r.calls > 0 /\ createThrows THEN @ + 1 ELSE @,
                  !.error = IF r.setError # null THEN r.setError ELSE @]
  IN IF r.propagates
       THEN catchSubmit([after EXCEPT !.escaped = @ + 1], "createShape failed")
       ELSE [after EXCEPT !.pc = "pauseAfterDraw"]

\* the body of the for loop from its test up to the next suspension
loopHead(h, createThrows) ==
  LET list == instructionList(h.data) IN
    IF loopContinues(h.i, Len(list))
      THEN LET instruction == list[h.i + 1] IN
        IF hasNarration(instruction)
          THEN LET said == speak(h, instruction.narration, h.i) IN
               [said EXCEPT !.pc = IF resolvedAtOnce(h) THEN "pauseBeforeDraw"
                                                         ELSE "speakStep"]
          ELSE execute(h, createThrows)
      ELSE endOfPlayback(h)

\* if (data.instructions && data.instructions.length > 0) ... else setError
startPlayback(h, createThrows) ==
  IF hasInstructions(h.data)
    THEN loopHead([h EXCEPT !.i = 0], createThrows)
    ELSE finally([h EXCEPT !.error = "No drawing instructions returned"])

\* from `const data = await response.json()` up to the next suspension
playResponse(h, body, createThrows) ==
  LET got == [h EXCEPT !.data = body]
      narration == Prop(body, "narration")
  IN IF JTruthy(narration)
       THEN LET said == speak(got, narration.v, -1) IN
            [said EXCEPT !.pc = IF resolvedAtOnce(h) THEN "pauseOverall"
                                                      ELSE "speakOverall"]
       ELSE startPlayback(got, createThrows)

\* the canvas may make a createShape call throw, MaxFailures times a playback
ThrowChoices == {FALSE} \cup {t \in {TRUE} : injected < MaxFailures}

\* ---- actions ------------------------------------------------------------
\* <Tldraw onMount={handleMount} />
handleMount ==
  /\ ~editor
  /\ Commit([Frame EXCEPT !.editor = TRUE])

\* onChange of the topic field, which is disabled while loading
setTopic ==
  /\ ~loading
  /\ \E t \in Topics : t # topic /\ Commit([Frame EXCEPT !.topic = t])

\* the form is submitted; the submit control is disabled while loading
handleSubmit ==
  /\ ~loading
  /\ IF topicIsBlank(topic)
       THEN Commit([Frame EXCEPT !.error = "Please enter a topic",
                                 !.lastSubmit = [outcome |-> "blank", topic |-> topic]])
     ELSE IF ~editor
       THEN Commit([Frame EXCEPT !.error = "Whiteboard not ready",
                                 !.lastSubmit = [outcome |-> "notReady", topic |-> topic]])
     ELSE /\ submissions < MaxSubmissions
          /\ Commit([startLoading(Frame)
               EXCEPT !.pc = "fetch",
                      !.lastSubmit = [outcome |-> "accepted", topic |-> topic],
                      !.exchange = [kind |-> "pending",
                                    body |-> jsonObject([topic |-> jsonChars(topic)])],
                      !.fetchCalls = @ + 1,
                      !.submissions = @ + 1,
                      !.data = noData, !.i = 0,
                      !.spoken = <<>>, !.interpreted = <<>>, !.createCalls = 0,
                      !.failed = {}, !.injected = 0, !.escaped = 0])

\* the fetch rejects
fetchRejects ==
  /\ pc = "fetch"
  /\ Commit(catchSubmit([Frame EXCEPT !.exchange =
                           [kind |-> "rejected", body |-> exchange.body]],
                        NetworkErrorMessage))

\* the fetch resolves with the answer `response`
settle(settled, response, createThrows) ==
  IF ~responseOk(response.status)
    THEN catchSubmit(settled, "API error: " \o numeral(response.status))
    ELSE playResponse(settled, response.body, createThrows)

\* an intermediary answers with an error status
fetchGatewayError ==
  /\ pc = "fetch"
  /\ Commit(settle([Frame EXCEPT !.exchange =
                      [kind |-> "gateway", body |-> exchange.body,
                       response |-> gatewayError]],
                   gatewayError, FALSE))

\* what model.generateContent may do in this run
ProviderAnswers ==
  IF ~keyConfigured THEN {notCalled}
  ELSE IF providerScript.free THEN Providers
  ELSE {[kind |-> "text", text |-> plainText(diagram(providerScript.list, FALSE))]}

\* the endpoint answers
fetchAnswered ==
  /\ pc = "fetch"
  /\ \E provider \in ProviderAnswers, createThrows \in ThrowChoices :
       LET response == POST(route, parsedAs(exchange.body), keyConfigured, provider).response
       IN Commit(settle([Frame EXCEPT !.exchange =
                           [kind |-> "endpoint", body |-> exchange.body,
                            provider |-> provider, response |-> response]],
                        response, createThrows))

\* an event of the speech engine ends the utterance k: onend and onerror do
\* the same, and the promise of speak() resolves
utteranceOver(k) ==
  LET u == utterances[k]
      rest == [j \in 1..(Len(utterances) - 1) |->
                 IF j < k THEN utterances[j] ELSE utterances[j + 1]]
      h == [Frame EXCEPT !.utterances = rest, !.isSpeaking = FALSE,
                         !.currentNarration = ""]
      awaited == pc \in {"speakOverall", "speakStep"} /\ u.id = Len(spoken)
  IN Commit(IF ~awaited THEN h
            ELSE [h EXCEPT !.pc = IF pc = "speakOverall" THEN "pauseOverall"
                                                         ELSE "pauseBeforeDraw"])

\* utterance.onstart
utteranceStart ==
  /\ \E k \in 1..Len(utterances) :
    /\ utterances[k].state = "pending"
    /\ Commit([Frame EXCEPT !.utterances[k].state = "speaking",
                            !.isSpeaking = TRUE,
                            !.currentNarration = utterances[k].text])

\* utterance.onend
utteranceEnd ==
  /\ \E k \in 1..Len(utterances) :
    /\ utterances[k].state \in {"speaking", "cancelled"}
    /\ utteranceOver(k)

\* utterance.onerror
utteranceError ==
  /\ \E k \in 1..Len(utterances) : utteranceOver(k)

\* setTimeout(resolve, 800) after the overall narration
pauseOverallElapsed ==
  /\ pc = "pauseOverall"
  /\ \E createThrows \in ThrowChoices : Commit(startPlayback(Frame, createThrows))

\* setTimeout(resolve, 300) after the narration of a step
pauseBeforeDrawElapsed ==
  /\ pc = "pauseBeforeDraw"
  /\ \E createThrows \in ThrowChoices : Commit(execute(Frame, createThrows))

\* setTimeout(resolve, 500 or 300) after the step; i++
pauseAfterDrawElapsed ==
  /\ pc = "pauseAfterDraw"
  /\ \E createThrows \in ThrowChoices :
       Commit(loopHead([Frame EXCEPT !.i = @ + 1], createThrows))

\* setTimeout(() => editor.zoomToFit(...), 200)
zoomToFit ==
  /\ zoomTimers > 0
  /\ Commit([Frame EXCEPT !.zoomTimers = @ - 1, !.zoomRequests = @ + 1])

\* the Clear control, disabled while loading or speaking
clearClick ==
  /\ ~loading /\ ~isSpeaking
  /\ Commit(clearBoard(Frame))

Next ==
  \/ handleMount
  \/ setTopic
  \/ handleSubmit
  \/ fetchRejects
  \/ fetchGatewayError
  \/ fetchAnswered
  \/ utteranceStart
  \/ utteranceEnd
  \/ utteranceError
  \/ pauseOverallElapsed
  \/ pauseBeforeDrawElapsed
  \/ pauseAfterDrawElapsed
  \/ zoomToFit
  \/ clearClick

Spec == Init /\ [][Next]_vars

\* What a submission in flight waits for: the endpoint call to settle, the
\* utterance it handed to the speech engine to end or error, a setTimeout
\* to fire.
Settles ==
  \/ fetchRejects \/ fetchGatewayError \/ fetchAnswered
  \/ utteranceEnd \/ utteranceError
  \/ pauseOverallElapsed \/ pauseBeforeDrawElapsed \/ pauseAfterDrawElapsed

\* Settles can happen: the handler is suspended or the engine holds an utterance
Waiting == pc # "idle" \/ utterances # <<>>

\* a step of Settles: the handler moves on or the engine drops an utterance
Advance ==
  \/ pc # "idle" /\ (pc' # pc \/ i' # i)
  \/ Len(utterances') < Len(utterances)

\* Waiting is ENABLED <<Settles>>_vars and Advance is <<Settles>>_vars
SettlesIsWaitingAdvance ==
  /\ []((ENABLED <<Settles>>_vars) <=> Waiting)
  /\ [][Settles <=> Advance]_vars

\* The same component when what it waits for does happen: WF_vars(Settles),
\* written with Waiting and Advance.  The endpoint is the version that
\* returns narration, with an API key: the other version answers without
\* the overall narration, and without a key the endpoint answers what it
\* answers with a key when the provider throws.
InitLive == Init /\ keyConfigured /\ route = "part_001"

SpecLive == InitLive /\ [][Next]_vars /\ ([]<>~Waiting \/ []<><<Advance>>_vars)

\* ------------------------------------------------------------------------
\* Playback of a scripted list: every variant of instruction
\* ------------------------------------------------------------------------
InstructionTypes ==
  {"drawText", "drawArrow", "drawCircle", "drawRectangle", "drawTriangle",
   "drawLine", "drawPath", "drawHighlight", "showImage", "drawCodeBlock",
   "drawSpeechBubble", "eraseArea"}

\* each type with every field, with two points only, and with no field
VariantInstructions ==
  {[type |-> t, text |-> <<"T">>, position |-> <<100, 100>>, size |-> <<50, 20>>,
    from |-> <<100, 100>>, to |-> <<150, 120>>,
    points |-> << <<0, 0>>, <<10, 0>>, <<10, 10>>, <<0, 10>> >>,
    url |-> "https://example.org/a.png", color |-> <<"r","e","d">>] :
      t \in InstructionTypes}
    \cup {[type |-> t, points |-> << <<0, 0>>, <<10, 10>> >>] : t \in InstructionTypes}
    \cup {[type |-> t] : t \in InstructionTypes}

RECURSIVE ScriptsUpTo(_)
ScriptsUpTo(n) ==
  IF n = 0 THEN {<<>>}
  ELSE LET shorter == ScriptsUpTo(n - 1) IN
       shorter \cup {Append(l, s) : l \in {m \in shorter : Len(m) = n - 1},
                                    s \in VariantInstructions}

ScriptLists == ScriptsUpTo(MaxScript)

scriptTopic == <<"W","a","t","e","r">>

\* the component right after it accepted the topic "Water" on a mounted
\* canvas, with a provider that answers one list of ScriptLists
InitInterp ==
  /\ topic = scriptTopic
  /\ loading = TRUE
  /\ editor = TRUE
  /\ error = null
  /\ isSpeaking = FALSE
  /\ currentNarration = ""
  /\ synth = TRUE
  /\ route = "part_001"
  /\ keyConfigured = TRUE
  /\ shapes = {}
  /\ utterances = <<>>
  /\ pc = "fetch"
  /\ data = noData
  /\ i = 0
  /\ zoomTimers = 0
  /\ exchange = [kind |-> "pending", body |-> jsonObject([topic |-> jsonChars(scriptTopic)])]
  /\ submissions = 1
  /\ fetchCalls = 1
  /\ spoken = <<>>
  /\ interpreted = <<>>
  /\ createCalls = 0
  /\ failed = {}
  /\ injected = 0
  /\ zoomRequests = 0
  /\ escaped = 0
  /\ deleted = FALSE
  /\ lastSubmit = [outcome |-> "accepted", topic |-> scriptTopic]
  /\ providerScript \in {scripted(l) : l \in ScriptLists}
  /\ call = noCall

NextInterp ==
  \/ fetchAnswered
  \/ pauseAfterDrawElapsed
  \/ zoomToFit

SpecInterp == InitInterp /\ [][NextInterp]_vars

\* ------------------------------------------------------------------------
\* speak() called while the engine holds utterances of earlier calls
\* ------------------------------------------------------------------------
\* an utterance of the earlier call number n, not yet ended
earlier(n, state) == [id |-> 0 - n, text |-> "earlier narration", state |-> state]

RECURSIVE InFlightUpTo(_)
InFlightUpTo(n) ==
  IF n = 0 THEN {<<>>}
  ELSE LET shorter == InFlightUpTo(n - 1) IN
       shorter \cup {Append(us, earlier(n, st)) :
                        us \in {m \in shorter : Len(m) = n - 1},
                        st \in {"pending", "speaking"}}

\* the component waiting for the endpoint's answer to "Water", with or
\* without speech synthesis; with it, the engine may hold utterances
InitSpeak ==
  /\ topic = scriptTopic
  /\ loading = TRUE
  /\ editor = TRUE
  /\ error = null
  /\ currentNarration = ""
  /\ synth \in BOOLEAN
  /\ route \in {"part_000", "part_001"}
  /\ keyConfigured = TRUE
  /\ shapes = {}
  /\ utterances \in IF synth THEN InFlightUpTo(MaxInFlight) ELSE {<<>>}
  /\ isSpeaking = (\E k \in 1..Len(utterances) : utterances[k].state = "speaking")
  /\ pc = "fetch"
  /\ data = noData
  /\ i = 0
  /\ zoomTimers = 0
  /\ exchange = [kind |-> "pending", body |-> jsonObject([topic |-> jsonChars(scriptTopic)])]
  /\ submissions = 1
  /\ fetchCalls = 1
  /\ spoken = <<>>
  /\ interpreted = <<>>
  /\ createCalls = 0
  /\ failed = {}
  /\ injected = 0
  /\ zoomRequests = 0
  /\ escaped = 0
  /\ deleted = FALSE
  /\ lastSubmit = [outcome |-> "accepted", topic |-> scriptTopic]
  /\ providerScript = freeProvider
  /\ call = noCall

NextSpeak ==
  \/ fetchAnswered
  \/ utteranceStart
  \/ utteranceEnd
  \/ utteranceError
  \/ pauseOverallElapsed
  \/ pauseBeforeDrawElapsed
  \/ pauseAfterDrawElapsed
  \/ zoomToFit

SpecSpeak == InitSpeak /\ [][NextSpeak]_vars

\* ------------------------------------------------------------------------
\* Direct calls: the endpoint as any client may call it, and the helpers
\* ------------------------------------------------------------------------
\* what `await request.json()` gives for the requests a client may send
Requests ==
  { syntaxError,
    parsedAs(jsonNull),
    parsedAs(jsonArray(<<>>)),
    parsedAs(jsonObject([subject |-> jsonChars(<<"W","a","t","e","r">>)])),
    parsedAs(jsonObject([topic |-> jsonNull])),
    parsedAs(jsonObject([topic |-> jsonChars(<<>>)])),
    parsedAs(jsonObject([topic |-> jsonNumber(0)])),
    parsedAs(jsonObject([topic |-> jsonNumber(5)])),
    parsedAs(jsonObject([topic |-> jsonChars(<<" ">>)])),
    parsedAs(jsonObject([topic |-> jsonChars(<<"W","a","t","e","r">>)])) }

\* lower-cased topics given to generateMockInstructions
MockTopics ==
  { <<>>,
    <<"x","y","z","-","u","n","k","n","o","w","n","-","t","o","p","i","c">>,
    <<"p","h","o","t","o","s","y","n","t","h","e","s","i","s">>,
    <<"w","h","a","t"," ","i","s"," ","p","h","o","t","o","s","y","n","t","h","e","s","i","s","?">>,
    <<"f","o","r"," ","l","o","o","p">>,
    <<"l","o","o","p","s"," ","f","o","r"," ","b","e","g","i","n","n","e","r","s">>,
    <<"f","o","r">>,
    <<"w","a","t","e","r">>,
    <<"w","a","t","e","r"," ","c","y","c","l","e">>,
    <<"w","a","t","e","r","f","a","l","l">>,
    <<"p","h","o","t","o","s","y","n","t","h","e","s","i","s"," ","i","n"," ","w","a","t","e","r">>,
    <<"f","o","r"," ","l","o","o","p"," ","p","h","o","t","o","s","y","n","t","h","e","s","i","s">>,
    <<"w","a","t","e","r"," ","f","o","r"," ","l","o","o","p">>,
    <<"a"," ","l","o","o","p"," ","o","f"," ","w","a","t","e","r">> }

\* the colour names the documentation lists as accepted
DocumentedColors ==
  { [name |-> "black", chars |-> <<"b","l","a","c","k">>],
    [name |-> "grey", chars |-> <<"g","r","e","y">>],
    [name |-> "violet", chars |-> <<"v","i","o","l","e","t">>],
    [name |-> "blue", chars |-> <<"b","l","u","e">>],
    [name |-> "yellow", chars |-> <<"y","e","l","l","o","w">>],
    [name |-> "orange", chars |-> <<"o","r","a","n","g","e">>],
    [name |-> "green", chars |-> <<"g","r","e","e","n">>],
    [name |-> "red", chars |-> <<"r","e","d">>],
    [name |-> "white", chars |-> <<"w","h","i","t","e">>],
    [name |-> "light-violet", chars |-> <<"l","i","g","h","t","-","v","i","o","l","e","t">>],
    [name |-> "light-blue", chars |-> <<"l","i","g","h","t","-","b","l","u","e">>],
    [name |-> "light-green", chars |-> <<"l","i","g","h","t","-","g","r","e","e","n">>],
    [name |-> "light-red", chars |-> <<"l","i","g","h","t","-","r","e","d">>] }

\* instructions whose color is absent, empty, a name or hex code of the
\* table in some letter case, a documented name, or another string
ColorInputs ==
  { [type |-> "drawCircle"] }
    \cup { [type |-> "drawCircle", color |-> d.chars] : d \in DocumentedColors }
    \cup { [type |-> "drawCircle", color |-> c] : c \in
           { <<>>,
             <<"r","e","d">>,
             <<"R","E","D">>,
             <<"R","e","d">>,
             <<"#","F","F","0","0","0","0">>,
             <<"#","f","f","0","0","0","0">>,
             <<"#","F","f","0","0","0","0">>,
             <<"l","i","g","h","t","b","l","u","e">>,
             <<"L","i","g","h","t","B","l","u","e">>,
             <<"l","i","g","h","t","-","v","i","o","l","e","t">>,
             <<"#","D","4","D","4","F","F">>,
             <<"t","e","a","l">>,
             <<" ","r","e","d">>,
             <<"c","o","n","s","t","r","u","c","t","o","r">>,
             <<"C","o","n","s","t","r","u","c","t","o","r">>,
             <<"_","_","p","r","o","t","o","_","_">> } }

\* POST /api/draw called with a request of Requests
callPOST ==
  /\ \E request \in Requests,
        provider \in (IF keyConfigured THEN Providers ELSE {notCalled}) :
       call' = [op |-> "POST", request |-> request, provider |-> provider,
                result |-> POST(route, request, keyConfigured, provider)]
  /\ UNCHANGED <<topic, loading, editor, error, isSpeaking, currentNarration,
                 synth, route, keyConfigured, shapes, utterances, pc, data, i,
                 zoomTimers, exchange, submissions, fetchCalls, spoken,
                 interpreted, createCalls, failed, injected, zoomRequests,
                 escaped, deleted, lastSubmit, providerScript>>

\* generateMockInstructions called with a topic of MockTopics
callGenerateMockInstructions ==
  /\ \E t \in MockTopics :
       call' = [op |-> "generateMockInstructions", topic |-> t,
                result |-> IF route = "part_000"
                             THEN generateMockInstructionsList(t)
                             ELSE generateMockInstructions(t)]
  /\ UNCHANGED <<topic, loading, editor, error, isSpeaking, currentNarration,
                 synth, route, keyConfigured, shapes, utterances, pc, data, i,
                 zoomTimers, exchange, submissions, fetchCalls, spoken,
                 interpreted, createCalls, failed, injected, zoomRequests,
                 escaped, deleted, lastSubmit, providerScript>>

\* mapToTldrawColor called for an instruction of ColorInputs
callMapToTldrawColor ==
  /\ \E instruction \in ColorInputs :
       call' = [op |-> "mapToTldrawColor", instruction |-> instruction,
                result |-> mapToTldrawColor(instruction)]
  /\ UNCHANGED <<topic, loading, editor, error, isSpeaking, currentNarration,
                 synth, route, keyConfigured, shapes, utterances, pc, data, i,
                 zoomTimers, exchange, submissions, fetchCalls, spoken,
                 interpreted, createCalls, failed, injected, zoomRequests,
                 escaped, deleted, lastSubmit, providerScript>>

NextCalls ==
  \/ callPOST
  \/ callGenerateMockInstructions
  \/ callMapToTldrawColor

SpecCalls == Init /\ [][NextCalls]_vars

\* ------------------------------------------------------------------------
\* executeInstruction called directly, with instructions of every shape
\* ------------------------------------------------------------------------
\* the corners of the square of side 10, in the order the walkthrough gives
SamplePoints == {<<0, 0>>, <<10, 0>>, <<10, 10>>, <<0, 10>>}

RECURSIVE PointListsUpTo(_)
PointListsUpTo(n) ==
  IF n = 0 THEN {<<>>}
  ELSE LET shorter == PointListsUpTo(n - 1) IN
       shorter \cup {Append(l, p) : l \in {m \in shorter : Len(m) = n - 1},
                                    p \in SamplePoints}

\* the fields of the instruction types other than type, points and color
OtherFields == {"position", "size", "from", "to", "text", "url"}

fieldValue(field) ==
  CASE field = "position" -> <<100, 100>>
    [] field = "size" -> <<50, 20>>
    [] field = "from" -> <<100, 100>>
    [] field = "to" -> <<150, 120>>
    [] field = "text" -> <<"T">>
    [] field = "url" -> "https://example.org/a.png"

\* the instruction { type, ...fields } and, when pointsIn is <<list>>, points
instructionWith(type, fields, pointsIn) ==
  [f \in {"type"} |-> type]
    @@ [f \in fields |-> fieldValue(f)]
    @@ [f \in {p \in {"points"} : pointsIn # <<>>} |-> pointsIn[1]]

\* every type with every combination of fields present, the point list
\* absent, empty, of one, two, three and four points
FieldInstructions ==
  {instructionWith(t, fields, pointsIn) :
     t \in InstructionTypes, fields \in SUBSET OtherFields,
     pointsIn \in {<<>>, << <<>> >>, << << <<0, 0>> >> >>,
                   << << <<0, 0>>, <<10, 10>> >> >>,
                   << << <<0, 0>>, <<10, 0>>, <<10, 10>> >> >>,
                   << << <<0, 0>>, <<10, 0>>, <<10, 10>>, <<0, 10>> >> >>}}

\* the types that read `points`, with every list of up to MaxPoints points,
\* with and
\* without the pair from, to
PointTypes ==
  {"drawLine", "drawPath", "drawTriangle", "drawCircle", "drawRectangle",
   "drawHighlight"}

PointInstructions ==
  {instructionWith(t, fields, <<points>>) :
     t \in PointTypes, fields \in {{}, {"from", "to"}}, points \in PointListsUpTo(MaxPoints)}

\* drawArrow between any two points of the corners, (100,100) and (150,120)
ArrowInstructions ==
  LET ends == SamplePoints \cup {<<100, 100>>, <<150, 120>>} IN
    {[type |-> "drawArrow", from |-> a, to |-> b] : a \in ends, b \in ends}

\* the three text variants with the color field of each instruction of
\* ColorInputs
TextTypes == {"drawText", "drawCodeBlock", "drawSpeechBubble"}

TextInstructions ==
  {[f \in {"type"} |-> t] @@ [text |-> <<"T">>, position |-> <<100, 100>>]
     @@ [f \in {"color"} \cap DOMAIN c |-> c.color] :
       t \in TextTypes, c \in ColorInputs}

DrawInputs ==
  FieldInstructions \cup PointInstructions \cup ArrowInstructions
    \cup TextInstructions

\* if (!editor) return; then the try block
executeInstructionOn(mounted, instruction, index, createThrows) ==
  IF ~mounted
    THEN [calls |-> 0, shapes |-> <<>>, threw |-> FALSE, setError |-> null,
          propagates |-> FALSE]
    ELSE executeInstruction(instruction, index, createThrows)

\* executeInstruction called once, with an instruction of DrawInputs as the
\* first or the second of a list
callExecuteInstruction ==
  /\ call = noCall
  /\ \E instruction \in DrawInputs, index \in {0, 1},
        createThrows \in BOOLEAN :
       call' = [op |-> "executeInstruction", instruction |-> instruction,
                index |-> index, createThrows |-> createThrows,
                mounted |-> editor,
                result |-> executeInstructionOn(editor, instruction, index,
                                                createThrows)]
  /\ UNCHANGED <<topic, loading, editor, error, isSpeaking, currentNarration,
                 synth, route, keyConfigured, shapes, utterances, pc, data, i,
                 zoomTimers, exchange, submissions, fetchCalls, spoken,
                 interpreted, createCalls, failed, injected, zoomRequests,
                 escaped, deleted, lastSubmit, providerScript>>

\* the component before any submission, on the deployment with narration
\* and an API key: executeInstruction reads none of the three
InitDraw == Init /\ synth /\ keyConfigured /\ route = "part_001"

NextDraw ==
  \/ handleMount
  \/ callExecuteInstruction

SpecDraw == InitDraw /\ [][NextDraw]_vars

\* ------------------------------------------------------------------------
\* clearBoard called in any state of the component and of the speech engine
\* ------------------------------------------------------------------------
\* shapes the canvas may hold
SampleShapes ==
  { {},
    {[id |-> <<1, 1>>, shape |-> [type |-> "geo", x |-> 0, y |-> 0]]},
    {[id |-> <<1, 1>>, shape |-> [type |-> "geo", x |-> 0, y |-> 0]],
     [id |-> <<1, 2>>, shape |-> [type |-> "text", x |-> 10, y |-> 20]]} }

\* the values of `error` the component sets
SampleErrors == {null, "Please enter a topic", "Failed to execute instruction 1"}

\* The component at rest or just after setLoading(true) in handleSubmit,
\* mounted or not.  window.speechSynthesis belongs to the window, so the
\* engine may hold utterances whatever the component does; shapes exist on
\* a mounted canvas only.
InitClear ==
  /\ topic \in Topics
  /\ loading \in BOOLEAN
  /\ editor \in BOOLEAN
  /\ error \in SampleErrors
  /\ synth \in BOOLEAN
  /\ utterances \in IF synth THEN InFlightUpTo(MaxInFlight) ELSE {<<>>}
  /\ isSpeaking = (\E k \in 1..Len(utterances) : utterances[k].state = "speaking")
  /\ currentNarration = IF isSpeaking THEN "earlier narration" ELSE ""
  /\ route = "part_001"
  /\ keyConfigured = TRUE
  /\ shapes \in IF editor THEN SampleShapes ELSE {{}}
  /\ pc = "idle"
  /\ data = noData
  /\ i = 0
  /\ zoomTimers = 0
  /\ exchange = [kind |-> "none"]
  /\ submissions = 0
  /\ fetchCalls = 0
  /\ spoken = <<>>
  /\ interpreted = <<>>
  /\ createCalls = 0
  /\ failed = {}
  /\ injected = 0
  /\ zoomRequests = 0
  /\ escaped = 0
  /\ deleted = FALSE
  /\ lastSubmit = [outcome |-> "none", topic |-> <<>>]
  /\ providerScript = freeProvider
  /\ call = noCall

\* clearBoard() called once; the frame before the call is kept in `call`
callClearBoard ==
  /\ call = noCall
  /\ \E r \in {clearBoard(Frame)} :
       /\ call' = [op |-> "clearBoard", before |-> Frame]
       /\ topic' = r.topic /\ loading' = r.loading /\ editor' = r.editor
       /\ error' = r.error /\ isSpeaking' = r.isSpeaking
       /\ currentNarration' = r.currentNarration /\ synth' = r.synth
       /\ shapes' = r.shapes /\ utterances' = r.utterances
       /\ deleted' = r.deleted
  /\ UNCHANGED <<route, keyConfigured, pc, data, i, zoomTimers, exchange,
                 submissions, fetchCalls, spoken, interpreted, createCalls,
                 failed, injected, zoomRequests, escaped, lastSubmit,
                 providerScript>>

SpecClear == InitClear /\ [][callClearBoard]_vars

\* ------------------------------------------------------------------------
\* Properties
\* ------------------------------------------------------------------------
\* a topic that is empty or consists only of white space
IsWhitespaceOnly(t) == \A k \in 1..Len(t) : t[k] \in {" ", "\t", "\n"}

\* the call of the current submission rejected or came back with a status
\* outside 200..299
FetchFailed ==
  \/ exchange.kind = "rejected"
  \/ /\ exchange.kind \in {"gateway", "endpoint"}
     /\ exchange.response.status \notin 200..299

\* the instruction list the endpoint returned for the current submission
ReturnedList ==
  IF /\ exchange.kind = "endpoint"
     /\ exchange.response.status \in 200..299
     /\ Prop(exchange.response.body, "instructions").t = "array"
    THEN Prop(exchange.response.body, "instructions").items
    ELSE <<>>

\* the playback of a returned, non-empty list has run to its end
PlaybackEnded == pc = "idle" /\ Len(ReturnedList) > 0

\* C1: submitting a topic that is empty or only white space sets the error to
\* the validation message and issues no call of the generation endpoint.
C1_BlankTopicNoFetch ==
  [][(handleSubmit /\ IsWhitespaceOnly(topic)) =>
       /\ error' = "Please enter a topic"
       /\ fetchCalls' = fetchCalls
       /\ exchange' = exchange
       /\ pc' = pc
       /\ loading' = loading]_vars

C1_Witness ==
  /\ lastSubmit.outcome = "blank"
  /\ lastSubmit.topic = <<" ", " ">>
  /\ error = "Please enter a topic"
  /\ fetchCalls = 0

\* C2: when the call of a submission rejects or returns a non-success status,
\* the submission ends with a non-null error, and nothing is spoken,
\* interpreted or created for it.
C2_FailedFetchEndsInError ==
  /\ [](FetchFailed =>
          /\ spoken = <<>> /\ utterances = <<>>
          /\ interpreted = <<>>
          /\ createCalls = 0 /\ shapes = {})
  /\ [][(pc = "fetch" /\ FetchFailed') =>
          (pc' = "idle" /\ ~loading' /\ error' # null)]_vars

C2_Witness ==
  /\ exchange.kind = "gateway"
  /\ pc = "idle"
  /\ error = "API error: 502"
  /\ createCalls = 0

\* C3: playback interprets the returned list in array order, each index
\* exactly once, whatever the step fields say.
C3_ArrayOrder ==
  /\ \A k \in 1..Len(interpreted) :
       /\ interpreted[k].index = k - 1
       /\ k <= Len(ReturnedList)
       /\ interpreted[k].instruction = ReturnedList[k]
  /\ PlaybackEnded => Len(interpreted) = Len(ReturnedList)

C3_Witness ==
  /\ PlaybackEnded
  /\ Len(interpreted) = 2
  /\ Has(ReturnedList[1], "step") /\ Has(ReturnedList[2], "step")
  /\ ReturnedList[1].step > ReturnedList[2].step

\* C4: when the construction of the primitive of index n throws, the
\* exception is caught in the interpreter, the error names step n + 1, the
\* later instructions are still interpreted and nothing propagates.
C4_FailureIsContained ==
  /\ [](escaped = 0)
  /\ [][\A n \in failed' \ failed :
          error' = "Failed to execute instruction " \o numeral(n + 1)]_vars
  /\ [](PlaybackEnded =>
          \A n \in failed : \A j \in (n + 1)..(Len(ReturnedList) - 1) :
            \E k \in 1..Len(interpreted) : interpreted[k].index = j)

C4_Witness ==
  /\ PlaybackEnded
  /\ injected > 0
  /\ \E n \in failed : \E k \in 1..Len(interpreted) :
       /\ interpreted[k].index > n
       /\ interpreted[k].index \notin failed

\* C5: one playback issues at most as many createShape calls as the list has
\* instructions: one instruction issues at most one, for every variant.
C5_AtMostOneCreatePerInstruction ==
  /\ [](/\ createCalls <= Len(interpreted)
        /\ Len(interpreted) <= Len(providerScript.list)
        /\ Cardinality(shapes) <= createCalls)
  /\ [][Len(interpreted') = Len(interpreted) + 1 =>
          createCalls' <= createCalls + 1]_vars

C5_Witness ==
  /\ pc = "idle"
  /\ Len(providerScript.list) = 2
  /\ createCalls = 2
  /\ \E k \in 1..2 : interpreted[k].instruction.type = "drawTriangle"

\* C6: an instruction with narration is interpreted only after its own
\* narration has resolved, and the narration of the next instruction starts
\* only after this one is interpreted: nothing is rendered while a narration
\* is in progress.
C6_NarrationThenRendering ==
  /\ \A k \in 1..Len(utterances) :
       LET said == spoken[utterances[k].id] IN
         Len(interpreted) = IF said.index < 0 THEN 0 ELSE said.index
  /\ \A p \in 1..Len(spoken) : Len(interpreted) >= spoken[p].index
  /\ \A k \in 1..Len(interpreted) :
       LET ins == interpreted[k].instruction IN
         (Has(ins, "narration") /\ ins.narration # "") =>
            \E p \in 1..Len(spoken) :
              /\ spoken[p].index = interpreted[k].index
              /\ spoken[p].text = ins.narration

C6_Witness ==
  /\ synth
  /\ isSpeaking
  /\ Len(interpreted) = 1
  /\ \E k \in 1..Len(utterances) : spoken[utterances[k].id].index = 1

\* C7: when the provider call throws, the endpoint answers 200 and the
\* `instructions` the client receives is a non-empty list.
C7_ProviderFailureGivesList ==
  (exchange.kind = "endpoint" /\ exchange.provider.kind = "throws") =>
     /\ exchange.response.status = 200
     /\ Prop(exchange.response.body, "instructions").t = "array"
     /\ Len(Prop(exchange.response.body, "instructions").items) > 0

\* C8: without an API key, a submission ends with the fallback played back:
\* a primitive is created and the error is not the no-instructions message.
C8_NoKeyPlaysFallback ==
  (~keyConfigured /\ exchange.kind = "endpoint" /\ pc = "idle"
     /\ lastSubmit.outcome = "accepted") =>
     /\ createCalls - injected >= 1
     /\ error # "No drawing instructions returned"

\* the text the endpoint parses is JSON for an object with a list `instructions`
ReadableAsDiagram(text) ==
  LET r == jsonParseSelected(text) IN
    /\ r.ok
    /\ r.value.t = "object"
    /\ Prop(r.value, "instructions").t = "array"

\* the answer of the endpoint is the fallback content for the topic
AnsweredFallback ==
  exchange.response = mockResponse(route, exchange.body.fields.topic.v)

C10_ClearedBeforeFetch ==
  /\ pc = "fetch" => shapes = {}
  /\ loading => \A s \in shapes : s.id[1] = submissions

C10_Witness ==
  /\ pc = "fetch"
  /\ submissions = 2
  /\ deleted
  /\ shapes = {}

\* C11: after any submission, whatever its outcome, the component returns to
\* the state where loading is false and the submit control is enabled,
\* provided the call settles and every utterance ends or errors; a
\* submission that is refused by validation never leaves that state.
C11_ReturnsToIdle ==
  /\ loading ~> (~loading /\ pc = "idle")
  /\ [](lastSubmit.outcome \in {"blank", "notReady"} /\ submissions = 0 => ~loading)

C11_Witness ==
  /\ ~loading /\ pc = "idle"
  /\ lastSubmit.outcome = "accepted"
  /\ failed # {}
  /\ spoken # <<>>

\* C12: at most one submission is in flight: from setLoading(true) to
\* setLoading(false) the handler is suspended or running, and while it is no
\* endpoint call is issued, no submission accepted and no playback restarted.
C12_OneSubmissionInFlight ==
  /\ [](loading <=> pc # "idle")
  /\ [][pc # "idle" =>
          /\ fetchCalls' = fetchCalls
          /\ submissions' = submissions
          /\ Len(interpreted') >= Len(interpreted)
          /\ i' >= i]_vars

C12_Witness ==
  /\ submissions = 2
  /\ loading
  /\ pc = "speakStep"
  /\ isSpeaking

\* C13 (its case does not arise): the Clear control acts only while no
\* submission is in flight, so no playback is in progress when the board is
\* cleared, and the engine never holds more than the utterance awaited.
ClearOnlyAtRest ==
  /\ [][clearClick => (pc = "idle" /\ pc' = "idle" /\ utterances = <<>>)]_vars
  /\ [](Len(utterances) <= 1)
  /\ [](pc = "idle" => utterances = <<>>)

\* the endpoint answered the current submission with an empty list
EmptyListReturned ==
  /\ exchange.kind = "endpoint"
  /\ exchange.response.status \in 200..299
  /\ Prop(exchange.response.body, "instructions").t = "array"
  /\ Len(Prop(exchange.response.body, "instructions").items) = 0

\* fit-to-view requests made or scheduled so far
ZoomScheduled == zoomTimers + zoomRequests

\* C14: when the endpoint succeeds with an empty list, the submission ends
\* with the error 'No drawing instructions returned' on a cleared canvas, no
\* primitive is created and no fit-to-view is scheduled.
C14_EmptyListIsAnError ==
  /\ [](EmptyListReturned =>
          createCalls = 0 /\ interpreted = <<>> /\ shapes = {})
  /\ [][EmptyListReturned' => ZoomScheduled' = ZoomScheduled]_vars
  /\ [][(EmptyListReturned' /\ loading /\ ~loading') =>
          error' = "No drawing instructions returned"]_vars

C14_Witness ==
  /\ EmptyListReturned
  /\ pc = "idle"
  /\ error = "No drawing instructions returned"
  /\ submissions = 2
  /\ deleted
  /\ shapes = {}

\* C15: a playback of a non-empty list schedules fit-to-view exactly once, at
\* its end, when every instruction of the list has been interpreted; nothing
\* else schedules it.
C15_ZoomOnceAfterLast ==
  /\ [][ZoomScheduled' # ZoomScheduled =>
          /\ ZoomScheduled' = ZoomScheduled + 1
          /\ loading /\ ~loading'
          /\ Len(ReturnedList') > 0
          /\ Len(interpreted') = Len(ReturnedList')
          /\ interpreted' = interpreted]_vars
  /\ [][(loading /\ ~loading' /\ Len(ReturnedList') > 0) =>
          ZoomScheduled' = ZoomScheduled + 1]_vars
  /\ [][zoomRequests' # zoomRequests =>
          zoomRequests' = zoomRequests + 1 /\ zoomTimers' = zoomTimers - 1]_vars

C15_Witness ==
  /\ pc = "idle"
  /\ Len(ReturnedList) = 2
  /\ Len(interpreted) = 2
  /\ zoomRequests = 1
  /\ zoomTimers = 0
  /\ submissions = 1

\* C16: a submission issues one call of the endpoint and a failed call is
\* not retried: the next call is issued by the next accepted submission.
C16_NoRetry ==
  /\ [](fetchCalls = submissions)
  /\ [][fetchCalls' # fetchCalls =>
          /\ fetchCalls' = fetchCalls + 1
          /\ pc = "idle" /\ ~loading
          /\ pc' = "fetch"
          /\ exchange'.kind = "pending"]_vars
  /\ [][FetchFailed' => (pc' = "idle" /\ fetchCalls' = fetchCalls)]_vars

C16_Witness ==
  /\ FetchFailed
  /\ exchange.kind = "rejected"
  /\ pc = "idle"
  /\ fetchCalls = 1
  /\ submissions = 1

\* the handler awaits the promise of its last speak() call
AwaitsSpeak == pc \in {"speakOverall", "speakStep"}

\* the engine holds the utterance of the last speak() call
AwaitedInEngine(us, n) == \E k \in 1..Len(us) : us[k].id = n

\* C17: every speak() call returns a promise that resolves when its
\* utterance ends or errors, and at once, without an utterance, when speech
\* is unavailable; with speech, the call cancels every utterance in flight
\* before it starts its own.
C17_SpeakResolves ==
  /\ [][Len(spoken') = Len(spoken) + 1 =>
          IF synth
            THEN /\ Len(utterances') = Len(utterances) + 1
                 /\ \A k \in 1..Len(utterances) :
                      /\ utterances'[k].id = utterances[k].id
                      /\ utterances'[k].state = "cancelled"
                 /\ utterances'[Len(utterances')] =
                      [id |-> Len(spoken'), text |-> spoken'[Len(spoken')].text,
                       state |-> "pending"]
                 /\ pc' \in {"speakOverall", "speakStep"}
            ELSE /\ utterances' = utterances
                 /\ pc' \in {"pauseOverall", "pauseBeforeDraw"}]_vars
  /\ [](~synth => utterances = <<>>)
  /\ [](AwaitsSpeak => synth /\ AwaitedInEngine(utterances, Len(spoken)))
  /\ [][(AwaitsSpeak /\ ~AwaitedInEngine(utterances', Len(spoken))) =>
          pc' = (IF pc = "speakOverall" THEN "pauseOverall" ELSE "pauseBeforeDraw")]_vars
  /\ [][(AwaitsSpeak /\ AwaitedInEngine(utterances', Len(spoken))) => pc' = pc]_vars

C17_Witness ==
  /\ synth
  /\ pc = "pauseBeforeDraw"
  /\ Len(spoken) = 2
  /\ \E k \in 1..Len(utterances) :
       utterances[k].id < 0 /\ utterances[k].state = "cancelled"

\* the body of the request is a JSON object whose topic is missing or empty
TopicMissingOrEmpty(request) ==
  /\ request.ok
  /\ request.value.t = "object"
  /\ \/ ~Has(request.value.fields, "topic")
     \/ request.value.fields.topic.t = "null"
     \/ /\ request.value.fields.topic.t = "chars"
        /\ request.value.fields.topic.v = <<>>

\* C18: a request whose topic is missing or empty is answered 400 with an
\* error field, and neither the provider nor the fallback generator is
\* called for it.
C18_MissingTopicIs400 ==
  (call.op = "POST" /\ TopicMissingOrEmpty(call.request)) =>
     /\ call.result.response.status = 400
     /\ Has(call.result.response.body.fields, "error")
     /\ call.result.invoked = {}

C18_Witness ==
  /\ call.op = "POST"
  /\ keyConfigured
  /\ call.provider.kind = "throws"
  /\ TopicMissingOrEmpty(call.request)
  /\ Has(call.request.value.fields, "topic")
  /\ call.request.value.fields.topic.t = "chars"
  /\ call.result.response.status = 400

\* the canned content of the deployed version, by name
MockContent(kind, t) ==
  IF route = "part_000"
    THEN jsonArray(CASE kind = "photosynthesis" -> mockPhotosynthesisList
                     [] kind = "forLoop" -> mockForLoopList
                     [] kind = "water" -> mockWaterCycleList
                     [] OTHER -> mockGenericList(t))
    ELSE asDiagram(CASE kind = "photosynthesis" -> mockPhotosynthesis
                     [] kind = "forLoop" -> mockForLoop
                     [] kind = "water" -> mockWaterCycle
                     [] OTHER -> mockGeneric(t))

\* the instruction list of a canned content
InstructionsOf(content) ==
  IF content.t = "array" THEN content.items ELSE content.fields.instructions.items

forLoopTopic == <<"f","o","r"," ","l","o","o","p">>

\* the first-match-wins policy, given what makes a topic a for-loop topic
FirstMatchWins(t, result, isForLoop) ==
  /\ includes(t, kwPhotosynthesis) => result = MockContent("photosynthesis", t)
  /\ (~includes(t, kwPhotosynthesis) /\ isForLoop) => result = MockContent("forLoop", t)
  /\ (~includes(t, kwPhotosynthesis) /\ ~isForLoop /\ includes(t, kwWater)) =>
       result = MockContent("water", t)
  /\ (~includes(t, kwPhotosynthesis) /\ ~isForLoop /\ ~includes(t, kwWater)) =>
       /\ result = MockContent("generic", t)
       /\ InstructionsOf(result)[1].type = "drawText"
       /\ InstructionsOf(result)[1].text = toUpperCase(t)

\* C19 as claimed: the fallback generator applies the policy in declaration
\* order, a for-loop topic being one that contains "for loop".
C19_FirstMatchWinsForLoop ==
  call.op = "generateMockInstructions" =>
    FirstMatchWins(call.topic, call.result, includes(call.topic, forLoopTopic))

\* C19 as amended: the same policy, a for-loop topic being one that contains
\* both "for" and "loop", anywhere and in any order.
C19_FirstMatchWinsForAndLoop ==
  call.op = "generateMockInstructions" =>
    FirstMatchWins(call.topic, call.result,
                   includes(call.topic, kwFor) /\ includes(call.topic, kwLoop))

C19_Witness ==
  /\ call.op = "generateMockInstructions"
  /\ call.topic = <<"w","a","t","e","r"," ","f","o","r"," ","l","o","o","p">>
  /\ call.result = MockContent("forLoop", call.topic)

\* the palette of the canvas
Palette ==
  {"black", "grey", "light-violet", "violet", "blue", "light-blue", "yellow",
   "orange", "green", "light-green", "red", "light-red", "white"}

\* a hex code or a name of the table, in any letter case
RecognizedColor(c) == \E k \in 1..Len(colorMap) : colorMap[k].key = toLowerCase(c)

\* C20: the colour normalizer returns a value of the palette for every
\* input, the same value for inputs that differ only in letter case and for
\* "#FF0000" and "red", and "black" for an absent or unrecognized input.
C20_NormalizerTotal ==
  call.op = "mapToTldrawColor" =>
    /\ call.result \in Palette
    /\ \A other \in ColorInputs :
         (/\ Has(other, "color") /\ Has(call.instruction, "color")
          /\ toLowerCase(other.color) = toLowerCase(call.instruction.color)) =>
            mapToTldrawColor(other) = call.result
    /\ (Has(call.instruction, "color") /\ toLowerCase(call.instruction.color) = <<"#","f","f","0","0","0","0">>) =>
         call.result = "red"
    /\ (~Has(call.instruction, "color") \/ ~RecognizedColor(call.instruction.color)) =>
         call.result = "black"


\* ------------------------------------------------------------------------
\* Claims about the instruction interpreter called on one instruction
\* ------------------------------------------------------------------------
\* executeInstruction was called on a mounted canvas that accepts the shape
Interpreted ==
  call.op = "executeInstruction" /\ call.mounted /\ ~call.createThrows

\* the instruction lacks geometry its variant needs: the position of a text
\* variant, an end of an arrow, the position or size of an image, a list of
\* enough points (or the from-to pair of a line, the position-size pair of
\* a circle or rectangle)
MissingGeometry(instruction) ==
  LET has(field) == Has(instruction, field)
      count == IF has("points") THEN Len(instruction.points) ELSE 0
  IN CASE instruction.type \in {"drawText", "drawCodeBlock", "drawSpeechBubble"} ->
            ~has("position")
       [] instruction.type = "drawArrow" -> ~has("from") \/ ~has("to")
       [] instruction.type = "showImage" -> ~has("position") \/ ~has("size")
       [] instruction.type \in {"drawLine", "drawPath"} ->
            count < 2 /\ ~(has("from") /\ has("to"))
       [] instruction.type \in {"drawTriangle", "drawHighlight"} -> count < 3
       [] instruction.type \in {"drawCircle", "drawRectangle"} ->
            count = 0 /\ ~(has("position") /\ has("size"))
       [] OTHER -> FALSE

\* C21: an instruction of any variant that lacks a field its variant needs
\* is silently skipped: no shape is created and the error is not set.
C21_MissingFieldSkipped ==
  (Interpreted /\ MissingGeometry(call.instruction)) =>
    /\ call.result.shapes = <<>>
    /\ call.result.setError = null

\* the variants that test their geometry before using it do skip silently
GuardedVariantsSkipped ==
  (/\ Interpreted
   /\ call.instruction.type \in PointTypes
   /\ MissingGeometry(call.instruction)) =>
    call.result = catchExecute(skipInstruction, call.index)

\* the straight segment between two points
Straight(a, b) == [type |-> "straight", points |-> <<a, b>>]

\* the points a line is drawn through according to the claim C22: the
\* explicit list when it has two points or more, else the pair from, to
ClaimedLinePoints(instruction) ==
  LET given == IF Has(instruction, "points") THEN instruction.points ELSE <<>> IN
    IF Len(given) >= 2 THEN given
    ELSE IF Has(instruction, "from") /\ Has(instruction, "to")
      THEN <<instruction.from, instruction.to>>
      ELSE <<>>

\* C22: drawLine and drawPath draw the from-to segment when the point list
\* has fewer than two points and from and to are present, nothing when
\* fewer than two points are available, and otherwise one shape with one
\* segment per consecutive pair of points and no closing segment.
C22_LineFallsBackToFromTo ==
  (Interpreted /\ call.instruction.type \in {"drawLine", "drawPath"}) =>
    LET points == ClaimedLinePoints(call.instruction)
        made == call.result.shapes
    IN IF Len(points) < 2 THEN made = <<>>
       ELSE /\ Len(made) = 1
            /\ made[1].props.segments =
                 [k \in 1..(Len(points) - 1) |-> Straight(points[k], points[k + 1])]

\* the same holds whenever the point list is absent or has two points or more
LineWithoutShortList ==
  (/\ Interpreted /\ call.instruction.type \in {"drawLine", "drawPath"}
   /\ (Has(call.instruction, "points") => Len(call.instruction.points) >= 2)) =>
    LET points == ClaimedLinePoints(call.instruction)
        made == call.result.shapes
    IN IF Len(points) < 2 THEN made = <<>>
       ELSE /\ Len(made) = 1
            /\ made[1].props.segments =
                 [k \in 1..(Len(points) - 1) |-> Straight(points[k], points[k + 1])]

\* C23: drawTriangle and drawHighlight with N >= 3 points create one shape
\* of exactly N segments, one per consecutive pair of points and a last one
\* from the last point back to the first; with fewer than 3 points they
\* create nothing.
C23_ClosedOutline ==
  (Interpreted /\ call.instruction.type \in {"drawTriangle", "drawHighlight"}) =>
    LET points == IF Has(call.instruction, "points")
                    THEN call.instruction.points ELSE <<>>
        N == Len(points)
        made == call.result.shapes
    IN IF N < 3 THEN made = <<>> /\ call.result.calls = 0
       ELSE /\ Len(made) = 1
            /\ Len(made[1].props.segments) = N
            /\ \A k \in 1..(N - 1) :
                 made[1].props.segments[k] = Straight(points[k], points[k + 1])
            /\ made[1].props.segments[N] = Straight(points[N], points[1])

\* a triangle or a highlight of four points was drawn with four segments
C23_Witness ==
  /\ Interpreted
  /\ call.instruction.type \in {"drawTriangle", "drawHighlight"}
  /\ Has(call.instruction, "points")
  /\ Len(call.instruction.points) = 4
  /\ Len(call.result.shapes) = 1
  /\ Len(call.result.shapes[1].props.segments) = 4

\* C24: drawCircle and drawRectangle given points and no position-size pair
\* create a primitive whose origin is (min x, min y) and whose size is
\* (max x - min x, max y - min y) over the points, the same for every
\* permutation of the list; the four corners of the square of side 10 give
\* origin (0,0) and size (10,10).
C24_BoundingBoxOfPoints ==
  (/\ Interpreted
   /\ call.instruction.type \in {"drawCircle", "drawRectangle"}
   /\ Has(call.instruction, "points")
   /\ ~(Has(call.instruction, "position") /\ Has(call.instruction, "size"))) =>
    LET points == call.instruction.points
        N == Len(points)
        xs == {points[k][1] : k \in 1..N}
        ys == {points[k][2] : k \in 1..N}
        made == call.result.shapes
    IN /\ N >= 2 => Len(made) = 1
       /\ \A k \in 1..Len(made) :
            /\ \A x \in xs : made[k].x <= x
            /\ \A y \in ys : made[k].y <= y
            /\ made[k].x \in xs /\ made[k].y \in ys
            /\ made[k].x + made[k].props.w \in xs
            /\ made[k].y + made[k].props.h \in ys
            /\ \A x \in xs : x <= made[k].x + made[k].props.w
            /\ \A y \in ys : y <= made[k].y + made[k].props.h
       /\ \A p \in Permutations(1..N) :
            executeInstruction([call.instruction EXCEPT
                                  !.points = [k \in 1..N |-> points[p[k]]]],
                               call.index, FALSE) = call.result
       /\ (\E p \in Permutations(1..4) :
             points = [k \in 1..4 |->
                        << <<0, 0>>, <<10, 0>>, <<10, 10>>, <<0, 10>> >>[p[k]]]) =>
            /\ Len(made) = 1
            /\ <<made[1].x, made[1].y>> = <<0, 0>>
            /\ <<made[1].props.w, made[1].props.h>> = <<10, 10>>

\* the corners given in another order: the box is the square all the same
C24_Witness ==
  /\ Interpreted
  /\ call.instruction.type = "drawCircle"
  /\ ~Has(call.instruction, "position")
  /\ Has(call.instruction, "points")
  /\ call.instruction.points = << <<10, 10>>, <<0, 0>>, <<0, 10>>, <<10, 0>> >>
  /\ Len(call.result.shapes) = 1
  /\ call.result.shapes[1].x = 0 /\ call.result.shapes[1].props.w = 10

\* C25: drawArrow with the ends from and to creates an arrow anchored at
\* from, with local start (0,0) and local end (to.x - from.x, to.y -
\* from.y); from (100,100) to (150,120) gives the end offset (50,20).
C25_ArrowIsRelative ==
  (/\ Interpreted
   /\ call.instruction.type = "drawArrow"
   /\ Has(call.instruction, "from") /\ Has(call.instruction, "to")) =>
    LET from == call.instruction.from
        to == call.instruction.to
        made == call.result.shapes
    IN /\ Len(made) = 1
       /\ made[1].type = "arrow"
       /\ <<made[1].x, made[1].y>> = from
       /\ made[1].props.start = <<0, 0>>
       /\ made[1].props.end = <<to[1] - from[1], to[2] - from[2]>>
       /\ (from = <<100, 100>> /\ to = <<150, 120>>) =>
            made[1].props.end = <<50, 20>>

\* the arrow of the example
C25_Witness ==
  /\ Interpreted
  /\ call.instruction = [type |-> "drawArrow", from |-> <<100, 100>>,
                         to |-> <<150, 120>>]
  /\ <<call.result.shapes[1].x, call.result.shapes[1].y>> = <<100, 100>>
  /\ call.result.shapes[1].props.end = <<50, 20>>

\* x, y, w, h of the primitives an execution created
Boxes(result) ==
  [k \in 1..Len(result.shapes) |->
     <<result.shapes[k].x, result.shapes[k].y,
       result.shapes[k].props.w, result.shapes[k].props.h>>]

\* C26: a drawCircle and a drawRectangle instruction carrying the same
\* position, size and points are both skipped or both create one primitive
\* with the same origin, width and height, a list of one point included.
C26_CircleAndRectangleAgree ==
  (Interpreted /\ call.instruction.type = "drawCircle") =>
    Boxes(executeInstruction([call.instruction EXCEPT !.type = "drawRectangle"],
                             call.index, FALSE))
      = Boxes(call.result)

\* they agree unless the point list has exactly one point and is used
CircleAndRectangleAgreeButOnePoint ==
  (/\ Interpreted /\ call.instruction.type = "drawCircle"
   /\ ~(/\ Has(call.instruction, "points")
        /\ Len(call.instruction.points) = 1
        /\ ~(Has(call.instruction, "position") /\ Has(call.instruction, "size")))) =>
    Boxes(executeInstruction([call.instruction EXCEPT !.type = "drawRectangle"],
                             call.index, FALSE))
      = Boxes(call.result)

\* C27: every colour name the documentation lists as accepted is mapped by
\* the colour normalizer to itself.
C27_DocumentedNamesKept ==
  call.op = "mapToTldrawColor" =>
    \A d \in DocumentedColors :
      (Has(call.instruction, "color") /\ call.instruction.color = d.chars) =>
        call.result = d.name

\* every documented name but light-violet is mapped to itself
DocumentedNamesKeptButLightViolet ==
  call.op = "mapToTldrawColor" =>
    \A d \in DocumentedColors :
      (/\ Has(call.instruction, "color") /\ call.instruction.color = d.chars
       /\ d.name # "light-violet") =>
        call.result = d.name

\* the instruction with the color field of c, or without one
WithColorOf(instruction, c) ==
  [f \in (DOMAIN instruction \ {"color"}) \cup ({"color"} \cap DOMAIN c) |->
     IF f = "color" THEN c.color ELSE instruction[f]]

\* C28: the text primitive of drawCodeBlock is always grey and that of
\* drawSpeechBubble always light-blue, whatever the color field, and two
\* such instructions that differ only in color create identical primitives;
\* the primitive of drawText has the normalized colour, black when absent.
C28_FixedTextColours ==
  (/\ Interpreted
   /\ call.instruction.type \in TextTypes
   /\ Has(call.instruction, "position") /\ Has(call.instruction, "text")) =>
    LET made == call.result.shapes IN
      /\ Len(made) = 1
      /\ made[1].type = "text"
      /\ call.instruction.type = "drawCodeBlock" => made[1].props.color = "grey"
      /\ call.instruction.type = "drawSpeechBubble" =>
           made[1].props.color = "light-blue"
      /\ call.instruction.type # "drawText" =>
           \A c \in ColorInputs :
             executeInstruction(WithColorOf(call.instruction, c), call.index,
                                FALSE).shapes = made
      /\ call.instruction.type = "drawText" =>
           /\ made[1].props.color = mapToTldrawColor(call.instruction)
           /\ ~Has(call.instruction, "color") => made[1].props.color = "black"
           /\ (/\ Has(call.instruction, "color")
               /\ toLowerCase(call.instruction.color) = <<"r","e","d">>) =>
                made[1].props.color = "red"

\* a code block asked to be red is grey
C28_Witness ==
  /\ Interpreted
  /\ call.instruction.type = "drawCodeBlock"
  /\ Has(call.instruction, "color")
  /\ call.instruction.color = <<"r","e","d">>
  /\ Len(call.result.shapes) = 1
  /\ call.result.shapes[1].props.color = "grey"

\* ------------------------------------------------------------------------
\* Claims about the component (continued)
\* ------------------------------------------------------------------------
\* the playback of the current submission ran to the end of the list
PlaybackFinishes == pc # "idle" /\ pc' = "idle" /\ Len(interpreted') > 0

\* the largest index of a set of indices
LastOf(indices) == CHOOSE m \in indices : \A n \in indices : n <= m

\* C29: when a playback in which the interpretation threw at the indices F
\* (not empty) finishes, the error is 'Failed to execute instruction K'
\* with K = max(F) + 1: 1-based, the last failure overwriting the others.
C29_LastFailureReported ==
  [][(PlaybackFinishes /\ failed' # {}) =>
       /\ error' = "Failed to execute instruction " \o numeral(LastOf(failed') + 1)
       /\ LastOf(failed') = 0 => error' = "Failed to execute instruction 1"
       /\ LastOf(failed') = 1 => error' = "Failed to execute instruction 2"]_vars

\* both instructions of a list failed: the second is the one reported
C29_Witness ==
  /\ pc = "idle"
  /\ failed = {0, 1}
  /\ Len(interpreted) = 2
  /\ error = "Failed to execute instruction 2"

\* C30: when clearBoard runs with the canvas mounted, right afterwards the
\* canvas holds no shape, the error is null, the narration text is empty,
\* the speaking flag is false and every utterance in flight is cancelled,
\* while the topic and the loading flag are as before; with the canvas not
\* mounted it changes nothing and cancels no utterance.
C30_ClearBoardEffect ==
  call.op = "clearBoard" =>
    IF call.before.editor
      THEN /\ shapes = {}
           /\ error = null
           /\ currentNarration = ""
           /\ ~isSpeaking
           /\ Len(utterances) = Len(call.before.utterances)
           /\ \A k \in 1..Len(utterances) :
                /\ utterances[k].state = "cancelled"
                /\ utterances[k].id = call.before.utterances[k].id
           /\ topic = call.before.topic
           /\ loading = call.before.loading
           /\ editor
      ELSE /\ Frame = call.before
           /\ \A k \in 1..Len(utterances) : utterances[k].state # "cancelled"

\* a board with shapes and an error was cleared while an utterance was
\* being spoken and another was pending
C30_Witness ==
  /\ call.op = "clearBoard"
  /\ call.before.editor
  /\ call.before.shapes # {}
  /\ call.before.error # null
  /\ call.before.isSpeaking
  /\ Len(call.before.utterances) = 2
  /\ shapes = {}
  /\ \A k \in 1..Len(utterances) : utterances[k].state = "cancelled"

\* clearBoard was called before the canvas was mounted, with an error shown
\* and an utterance being spoken
ClearedNotMounted ==
  /\ call.op = "clearBoard"
  /\ ~call.before.editor
  /\ error # null
  /\ isSpeaking
  /\ utterances # <<>>
=============================================================================
